---- MODULE Spec2Model ----
(***************************************************************************)
(* A model of ufal/document-translation: the segment lexer, the alignment  *)
(* relation, aligned segments and the tag reinserter.                      *)
(*                                                                         *)
(* Strings are sequences of one-character strings.  Each component has its *)
(* own variables and its own specification; a specification keeps the      *)
(* variables of the other components at their idle values.                 *)
(***************************************************************************)
EXTENDS Integers, Sequences, FiniteSets, TLC

VARIABLES
    lexIn,      \* the string handed to SegmentedText.from_string
    lexOut,     \* NoCall before the call, afterwards the call's outcome
    segImpl,    \* which Segment class keys the alignment: "str" or "object"
    al,         \* an Alignment object
    alOp,       \* the last operation called on al, with its arguments
    alErr,      \* "" or the exception the last operation raised
    cmp,        \* the Alignment objects of the composition specification, by name
    cmpErr,     \* "" or the exception a composition raised
    asA,        \* an AlignedSegments object, self of compose or of +
    asB,        \* an AlignedSegments object, other of compose or of +
    asRes,      \* NoResult, or the AlignedSegments that the call returned
    asErr,      \* "none" before the call, then "" or the exception raised
    rtSrc,      \* aligned_segments.src handed to reinsert_tags
    rtTgt,      \* aligned_segments.tgt
    rtAl,       \* aligned_segments.alignment: a set of (src index, tgt index)
    rtErr,      \* "none" before the call, then "" or the exception raised
    rsSrc,      \* aligned_segments.src handed to reinsert_segments: objects
    rsTgt,      \* aligned_segments.tgt: objects
    rsAl,       \* aligned_segments.alignment, over object identities
    rsErr,      \* "none" before the call, then "" or the exception raised
    ivObj,      \* the AlignedSegments object the operations are called on
    ivPrev,     \* self of the last + call, as the call left it
    ivErr,      \* "" or the exception the last operation raised
    ivCalls,    \* the number of operations called on ivObj so far
    ivOp,       \* "none" or the operation called last on ivObj
    ivBefore,   \* ivObj as it was when that operation was called
    tlSrc,      \* the string handed to MarkupTranslator.translate
    tlRun,      \* the phases of the translate call entered so far, in order
    tlErr,      \* "" or the exception that ended the translate call
    tlTranslator, \* how many times translator.translate was invoked
    tlAligner,  \* how many times aligner.align was invoked
    agView,     \* src_for_translation, the SegmentedText handed to the translator
    agSrcSents, \* src_sentences as the translator returned them: strings
    agTgtSents, \* tgt_sentences as the translator returned them: strings
    agAnswer,   \* what aligner.align returned: per sentence, a list of index pairs
    agOut,      \* NoCall, or where lines 129-152 of translate got to
    tvText,     \* the SegmentedText handed to translator_view: objects
    tvOut,      \* NoResult, or the view and the alignment translator_view returned
    plSrc,      \* the string handed to translate, in the run that is followed through its data
    plStage,    \* the statement of translate the run has got to
    plErr,      \* "" or the exception that ended the run
    plSrcSents, \* src_sentences as the translator returned them: strings
    plTgtSents, \* tgt_sentences as the translator returned them: strings
    plAnswer,   \* what aligner.align returned: per sentence, a list of index pairs
    plView,     \* NoResult, or src_segments_to_src_for_translation
    plSrcSide,  \* NoResult, or src_for_translation_to_src_sentences
    plTokens,   \* NoResult, or src_tokens_to_tgt_tokens_alignment
    plTgtText,  \* tgt_sentences as a SegmentedText: objects
    plFinal,    \* NoResult, or src_segments_to_tgt_sentences
    snSents,    \* the list of sentence strings handed to from_sentences
    snText,     \* NoCall, or what from_sentences returned or raised
    snSplit,    \* the sub-sequences split_sentences yielded, once per iteration so far
    brImpl,     \* the BatchRequest class: "clean" (document_translation) or "noclean" (src)
    brMax,      \* batch_max_bytes
    brBatch,    \* self.batch: the pending lines
    brBytes,    \* self.batch_current_bytes
    brResults,  \* self.results
    brSent,     \* every batch the callback was invoked with so far, in order
    brOp,       \* the operation called last, its lines and outcome
    brCalls     \* how many operations were called on the object so far

lexVars == <<lexIn, lexOut>>
alVars == <<segImpl, al, alOp, alErr>>
cmpVars == <<cmp, cmpErr>>
asVars == <<asA, asB, asRes, asErr>>
rtVars == <<rtSrc, rtTgt, rtAl, rtErr>>
rsVars == <<rsSrc, rsTgt, rsAl, rsErr>>
ivVars == <<ivObj, ivPrev, ivErr, ivCalls, ivOp, ivBefore>>
tlVars == <<tlSrc, tlRun, tlErr, tlTranslator, tlAligner>>
agVars == <<agView, agSrcSents, agTgtSents, agAnswer, agOut>>
tvVars == <<tvText, tvOut>>
plVars == <<plSrc, plStage, plErr, plSrcSents, plTgtSents, plAnswer, plView, plSrcSide, plTokens, plTgtText, plFinal>>
snVars == <<snSents, snText, snSplit>>
brVars == <<brImpl, brMax, brBatch, brBytes, brResults, brSent, brOp, brCalls>>
vars == <<lexIn, lexOut, segImpl, al, alOp, alErr, cmp, cmpErr, asA, asB, asRes, asErr,
          rtSrc, rtTgt, rtAl, rtErr, rsSrc, rsTgt, rsAl, rsErr,
          ivObj, ivPrev, ivErr, ivCalls, ivOp, ivBefore,
          tlSrc, tlRun, tlErr, tlTranslator, tlAligner,
          agView, agSrcSents, agTgtSents, agAnswer, agOut,
          tvText, tvOut,
          plSrc, plStage, plErr, plSrcSents, plTgtSents, plAnswer, plView, plSrcSide, plTokens, plTgtText, plFinal,
          snSents, snText, snSplit,
          brImpl, brMax, brBatch, brBytes, brResults, brSent, brOp, brCalls>>

(***************************************************************************)
(* Bounds                                                                  *)
(***************************************************************************)
MaxStrLen == 5
\* the largest count the aligned_tgts counter of the model reaches
MaxCount == 3
\* the longest list handed to update_from_iterable
MaxIter == 2
\* the most pairs the alignments A, B and C hold together
MaxPairs == 4
\* the most segments in a middle text of the AlignedSegments specification
MaxTextLen == 2
\* the most paired-tag segments and the most other segments of a source, and
\* the most segments of a target, handed to reinsert_tags
MaxTagSegs == 4
MaxItems == 2
MaxTgtLen == 2

(***************************************************************************)
(* Characters and strings                                                  *)
(***************************************************************************)
Alphabet == {"<", "/", "g", "x", ">", " ", "\n"}

\* \s of Python's re, over the alphabet
IsSpace(c) == c \in {" ", "\n", "\t"}

\* \w of Python's re, over the alphabet
IsWord(c) == c \in {"g", "x", "b", "e", "l", "m", "r", "k", "a"}

Min(S) == CHOOSE x \in S : \A y \in S : x <= y
Max(S) == CHOOSE x \in S : \A y \in S : x >= y

RECURSIVE StringsUpTo(_)
StringsUpTo(n) ==
    IF n = 0 THEN {<<>>}
    ELSE LET shorter == StringsUpTo(n - 1)
         IN  shorter \cup {Append(s, c) : s \in {t \in shorter : Len(t) = n - 1}, c \in Alphabet}

\* s[p..q], empty when q < p
Slice(s, p, q) == SubSeq(s, p, q)

StartsWith(s, pre) == Len(s) >= Len(pre) /\ SubSeq(s, 1, Len(pre)) = pre

\* does the literal lit occur in s at position p
LitAt(s, p, lit) == p + Len(lit) - 1 <= Len(s) /\ SubSeq(s, p, p + Len(lit) - 1) = lit

RECURSIVE Join(_)
Join(strs) == IF strs = <<>> THEN <<>> ELSE Head(strs) \o Join(Tail(strs))

(***************************************************************************)
(* SegmentedText.segments_regex                                            *)
(*   (</?(g|x|bx|ex|lb|mrk).*?>|\n|[^\S\n]+|[^<\s]+|[^>\s]+)               *)
(***************************************************************************)
TagNames == << <<"g">>, <<"x">>, <<"b", "x">>, <<"e", "x">>, <<"l", "b">>, <<"m", "r", "k">> >>

\* .*?> from position p: the position of the first ">" at or after p that no
\* "\n" precedes (the dot does not match a newline); 0 when there is none
LazyToGt(s, p) ==
    LET gts == {q \in p..Len(s) : s[q] = ">" /\ \A r \in p..(q - 1) : s[r] # "\n"}
    IN  IF gts = {} THEN 0 ELSE Min(gts)

\* (g|x|bx|ex|lb|mrk).*?> from position p: the end of the match, 0 when none
NameThenGt(s, p) ==
    LET ok == {i \in 1..Len(TagNames) :
                  LitAt(s, p, TagNames[i]) /\ LazyToGt(s, p + Len(TagNames[i])) # 0}
    IN  IF ok = {} THEN 0 ELSE LazyToGt(s, p + Len(TagNames[Min(ok)]))

\* </?(g|x|bx|ex|lb|mrk).*?> at position p: the end of the match, 0 when none
TagAltEnd(s, p) ==
    IF s[p] # "<" THEN 0
    ELSE IF p + 1 <= Len(s) /\ s[p + 1] = "/" /\ NameThenGt(s, p + 2) # 0
         THEN NameThenGt(s, p + 2)
         ELSE NameThenGt(s, p + 1)

InlineSpace(c) == IsSpace(c) /\ c # "\n"
NotLtNotSpace(c) == c # "<" /\ ~IsSpace(c)
NotGtNotSpace(c) == c # ">" /\ ~IsSpace(c)

\* the end of the longest run from p of characters of the class cls (a greedy +)
InClass(cls, c) ==
    CASE cls = "inline" -> InlineSpace(c)
      [] cls = "notlt" -> NotLtNotSpace(c)
      [] cls = "notgt" -> NotGtNotSpace(c)
      [] cls = "word" -> IsWord(c)

RunEnd(s, p, cls) ==
    Max({q \in p..Len(s) : \A r \in (p + 1)..q : InClass(cls, s[r])})

\* the end of the match of segments_regex at position p, 0 when no
\* alternative matches there
SegmentsRegexEnd(s, p) ==
    IF TagAltEnd(s, p) # 0 THEN TagAltEnd(s, p)
    ELSE IF s[p] = "\n" THEN p
    ELSE IF InlineSpace(s[p]) THEN RunEnd(s, p, "inline")
    ELSE IF NotLtNotSpace(s[p]) THEN RunEnd(s, p, "notlt")
    ELSE IF NotGtNotSpace(s[p]) THEN RunEnd(s, p, "notgt")
    ELSE 0

\* segments_regex.findall(string), group 0 of every match: a position where
\* nothing matches is skipped
RECURSIVE Findall(_, _)
Findall(s, p) ==
    IF p > Len(s) THEN <<>>
    ELSE LET e == SegmentsRegexEnd(s, p)
         IN  IF e = 0 THEN Findall(s, p + 1)
             ELSE <<Slice(s, p, e)>> \o Findall(s, e + 1)

\* the most segments of a source handed to reinsert_segments
MaxSrcLen == 3
\* the most pairs between the source and the target's own segments there
MaxAligned == 2

(***************************************************************************)
(* Segment classes and SegmentFactory                                      *)
(***************************************************************************)
\* a segment: its class k, its surface string s, and for a tag its name
\* and, for a paired tag, whether it opens
Seg(k, s, tag, opening) == [k |-> k, s |-> s, tag |-> tag, opening |-> opening]

TextSegment(s) == Seg("TEXT", s, <<>>, FALSE)
WhitespaceSegment(s) == Seg("WS", s, <<>>, FALSE)
SentenceSeparator == Seg("SEP", <<>>, <<>>, FALSE)
ValueError == [k |-> "ValueError"]

\* (\w+) from position p
WordRun(s, p) == Slice(s, p, RunEnd(s, p, "word"))

\* TagSegment.__init__: the tag name, <<>> when the search finds none
TagName(s) ==
    IF StartsWith(s, <<"<", "/">>)
    THEN LET hits == {p \in 1..Len(s) :
                         /\ LitAt(s, p, <<"<", "/">>)
                         /\ p + 2 <= Len(s) /\ IsWord(s[p + 2])
                         /\ LitAt(s, RunEnd(s, p + 2, "word") + 1, <<">">>)}
         IN  IF hits = {} THEN <<>> ELSE WordRun(s, Min(hits) + 2)
    ELSE LET hits == {p \in 1..Len(s) :
                         s[p] = "<" /\ p + 1 <= Len(s) /\ IsWord(s[p + 1])}
         IN  IF hits = {} THEN <<>> ELSE WordRun(s, Min(hits) + 1)

TagSegment(s) ==
    IF TagName(s) = <<>> THEN ValueError ELSE Seg("TAG", s, TagName(s), FALSE)

PairedTagSegment(s) ==
    IF TagName(s) = <<>> THEN ValueError
    ELSE IF s = <<"<", "/", "g", ">">> THEN Seg("PTAG", s, TagName(s), FALSE)
    ELSE IF StartsWith(s, <<"<", "g">>) THEN Seg("PTAG", s, TagName(s), TRUE)
    ELSE ValueError

\* paired_tag_regex.match(s): </?g.*?> at the start of s
PairedTagRegexMatch(s) ==
    /\ s # <<>> /\ s[1] = "<"
    /\ \/ LitAt(s, 2, <<"/", "g">>) /\ LazyToGt(s, 4) # 0
       \/ LitAt(s, 2, <<"g">>) /\ LazyToGt(s, 3) # 0

\* tag_regex.match(s): </?(x|bx|ex|lb|mrk).*?> at the start of s
TagRegexMatch(s) ==
    /\ s # <<>> /\ s[1] = "<"
    /\ \E i \in 2..Len(TagNames) :
          \/ LitAt(s, 2, <<"/">> \o TagNames[i]) /\ LazyToGt(s, 3 + Len(TagNames[i])) # 0
          \/ LitAt(s, 2, TagNames[i]) /\ LazyToGt(s, 2 + Len(TagNames[i])) # 0

\* SegmentFactory.from_string with whitespace normalised to a single space
SegmentFactoryNormalizing(s) ==
    IF PairedTagRegexMatch(s) THEN PairedTagSegment(s)
    ELSE IF TagRegexMatch(s) THEN TagSegment(s)
    ELSE IF s # <<>> /\ IsSpace(s[1]) THEN WhitespaceSegment(<<" ">>)
    ELSE TextSegment(s)

SegmentFactoryFromString(s) ==
    IF PairedTagRegexMatch(s) THEN PairedTagSegment(s)
    ELSE IF TagRegexMatch(s) THEN TagSegment(s)
    ELSE IF s # <<>> /\ IsSpace(s[1]) THEN WhitespaceSegment(s)
    ELSE TextSegment(s)

(***************************************************************************)
(* SegmentedText                                                           *)
(***************************************************************************)
\* SegmentedText.__str__ : the surface strings joined with no separator
Str(segs) == Join([i \in 1..Len(segs) |-> segs[i].s])

\* SegmentedText.from_string: the outcome is the segment list, or the error
\* raised (the lossless-join assertion, or a ValueError of a tag class)
FromString(s) ==
    LET strs == Findall(s, 1)
        segs == [i \in 1..Len(strs) |-> SegmentFactoryFromString(strs[i])]
    IN  IF Join(strs) # s THEN [ok |-> FALSE, err |-> "AssertionError", segs |-> <<>>]
        ELSE IF \E i \in 1..Len(segs) : segs[i] = ValueError
             THEN [ok |-> FALSE, err |-> "ValueError", segs |-> <<>>]
             ELSE [ok |-> TRUE, err |-> "", segs |-> segs]

(***************************************************************************)
(* Alignment (markuptranslator/alignment.py)                               *)
(*                                                                         *)
(* An Alignment object is modelled by                                      *)
(*   pairs : the pairs <<src key, tgt key>> held by the sets of            *)
(*           _src_to_tgt,                                                  *)
(*   dom   : the keys present in the defaultdict _src_to_tgt (a lookup of  *)
(*           a missing key inserts it with an empty set),                  *)
(*   cnt   : the Counter aligned_tgts.                                     *)
(* A key is what Python's hash and == make of a segment.                   *)
(***************************************************************************)
\* the segments of the alignment specifications: identity and surface string
AlSegString == [i \in 1..4 |-> IF i <= 2 THEN <<"a">> ELSE <<"b">>]
AlSrcs == {1, 2}
AlTgts == {3, 4}

\* class Segment(str) hashes and compares by the string value, so equal
\* strings are one key (the least identity stands for it); class
\* Segment(object) hashes and compares by identity
SegKey(impl, i) ==
    IF impl = "str" THEN Min({j \in DOMAIN AlSegString : AlSegString[j] = AlSegString[i]})
    ELSE i

\* Alignment() with no argument
EmptyAlignment == [pairs |-> {}, dom |-> {}, cnt |-> <<>>]

\* Counter lookup: a missing key counts 0
Count(a, t) == IF t \in DOMAIN a.cnt THEN a.cnt[t] ELSE 0

SetCount(cnt, t, n) ==
    [k \in DOMAIN cnt \cup {t} |-> IF k = t THEN n ELSE cnt[k]]

\* Alignment.get: the set stored under src (the lookup's insertion of a
\* missing key is AlTouch)
AlGet(a, s) == {p[2] : p \in {q \in a.pairs : q[1] = s}}

\* the side effect of self._src_to_tgt[src] on the defaultdict
AlTouch(a, s) == [a EXCEPT !.dom = @ \cup {s}]

\* Alignment.is_src_aligned
IsSrcAligned(a, s) == AlGet(a, s) # {}

\* Alignment.is_tgt_aligned
IsTgtAligned(a, t) == t \in DOMAIN a.cnt /\ a.cnt[t] > 0

\* Alignment.is_empty
IsEmpty(a) == a.dom = {} \/ \A k \in a.dom : AlGet(a, k) = {}

\* Alignment.to_list, as a set
ToList(a) == a.pairs

\* Alignment.add
AlAdd(a, s, t) ==
    [pairs |-> a.pairs \cup {<<s, t>>},
     dom   |-> a.dom \cup {s},
     cnt   |-> SetCount(a.cnt, t, Count(a, t) + 1)]

\* Alignment.remove with the counter decremented before the set is touched
AlRemoveCountFirst(a, s, t) ==
    IF <<s, t>> \in a.pairs
    THEN [err |-> "",
          a   |-> [pairs |-> a.pairs \ {<<s, t>>}, dom |-> a.dom,
                   cnt |-> SetCount(a.cnt, t, Count(a, t) - 1)]]
    ELSE [err |-> "KeyError",
          a   |-> [pairs |-> a.pairs, dom |-> a.dom \cup {s},
                   cnt |-> SetCount(a.cnt, t, Count(a, t) - 1)]]

\* Alignment.remove: set.remove raises KeyError for an absent element, after
\* the defaultdict lookup and before the counter is touched
AlRemove(a, s, t) ==
    IF <<s, t>> \in a.pairs
    THEN [err |-> "",
          a   |-> [pairs |-> a.pairs \ {<<s, t>>}, dom |-> a.dom,
                   cnt |-> SetCount(a.cnt, t, Count(a, t) - 1)]]
    ELSE [err |-> "KeyError", a |-> AlTouch(a, s)]

\* Alignment.update_from_iterable
RECURSIVE UpdateFromIterable(_, _)
UpdateFromIterable(a, list) ==
    IF list = <<>> THEN a
    ELSE UpdateFromIterable(AlAdd(a, Head(list)[1], Head(list)[2]), Tail(list))

\* Alignment.from_iterable
FromIterable(list) == UpdateFromIterable(EmptyAlignment, list)

\* the passes of a compose that looks up other.get(src) instead of other.get(tgt)
ComposeTriplesBySrc(a, b) ==
    UNION {{<<p[1], p[2], t>> : t \in AlGet(b, p[1])} : p \in a.pairs}

\* the passes of the innermost loop of Alignment.compose: (src, tgt, other_tgt)
\* for every pair (src, tgt) of self and every other_tgt in other.get(tgt)
ComposeTriples(a, b) ==
    UNION {{<<p[1], p[2], t>> : t \in AlGet(b, p[2])} : p \in a.pairs}

\* composed_alignment.add(src, other_tgt), once per pass
RECURSIVE AddAll(_, _)
AddAll(acc, triples) ==
    IF triples = {} THEN acc
    ELSE LET x == CHOOSE y \in triples : TRUE
         IN  AddAll(AlAdd(acc, x[1], x[3]), triples \ {x})

\* a compose that skips the passes with other_tgt = src
AlComposeNoLoop(a, b) ==
    [res   |-> AddAll(EmptyAlignment, {x \in ComposeTriples(a, b) : x[3] # x[1]}),
     other |-> [b EXCEPT !.dom = @ \cup {p[2] : p \in a.pairs}]]

\* Alignment.compose(self = a, other = b) for two different objects: res is the
\* returned alignment, other is b after the call (other.get(tgt) has inserted
\* every tgt of self as a key of other's defaultdict)
AlCompose(a, b) ==
    [res   |-> AddAll(EmptyAlignment, ComposeTriples(a, b)),
     other |-> [b EXCEPT !.dom = @ \cup {p[2] : p \in a.pairs}]]

\* the keys of self whose pass inserts a new key into self when other is self:
\* the dict iterator then raises RuntimeError (dictionary changed size)
SelfComposeOffending(a) == {s \in a.dom : ~(AlGet(a, s) \subseteq a.dom)}

\* what a caller can observe of an alignment over the segments segs
Observe(a, segs) ==
    [pairs  |-> ToList(a),
     get    |-> [s \in segs |-> AlGet(a, s)],
     srcAl  |-> [s \in segs |-> IsSrcAligned(a, s)],
     tgtAl  |-> [s \in segs |-> IsTgtAligned(a, s)],
     empty  |-> IsEmpty(a)]

(***************************************************************************)
(* AlignedSegments: src and tgt are sequences of segments [id, s] (id is   *)
(* the object's identity, s its string), alignment is an Alignment over    *)
(* the identities                                                          *)
(***************************************************************************)
AlignedSegments(src, tgt, alignment) == [src |-> src, tgt |-> tgt, alignment |-> alignment]

NoResult == [src |-> <<>>, tgt |-> <<>>, alignment |-> EmptyAlignment, none |-> TRUE]

\* a compose without the assertion on the two strings
AsComposeUnchecked(a, b) ==
    LET r == AlCompose(a.alignment, b.alignment)
    IN  [err   |-> "",
         res   |-> AlignedSegments(a.src, b.tgt, r.res),
         other |-> [b EXCEPT !.alignment = r.other]]

\* AlignedSegments.compose(self = a, other = b): the exception raised or "",
\* the returned object, and b after the call
AsCompose(a, b) ==
    IF Str(a.tgt) # Str(b.src)
    THEN [err |-> "AssertionError", res |-> NoResult, other |-> b]
    ELSE LET r == AlCompose(a.alignment, b.alignment)
         IN  [err   |-> "",
              res   |-> AlignedSegments(a.src, b.tgt, r.res),
              other |-> [b EXCEPT !.alignment = r.other]]

(***************************************************************************)
(* TagReinserter.reinsert_tags of translate_markup.py.  Indices are the    *)
(* code's indices plus one.  A segment is [k, src]: k is its class ("TEXT",*)
(* "WS", "NL" for the whitespace segment "\n", "OPEN" and "CLOSE" for a    *)
(* PairedTagSegment), src is 0 for a segment of the target and i for the   *)
(* object at index i of the source.  The alignment is the set mapping.     *)
(***************************************************************************)
\* _find_line_boundaries
LineBoundaries(segs) ==
    <<0>> \o SelectSeq([i \in 1..Len(segs) |-> i], LAMBDA i : segs[i].k = "NL")
          \o <<Len(segs) + 1>>

\* bisect_left on a sorted list: the number of its entries below x
BisectLeft(list, x) == Cardinality({i \in 1..Len(list) : list[i] < x})

\* Alignment.get_src
GetSrc(mapping, i) == {p[2] : p \in {q \in mapping : q[1] = i}}

\* an insert that ignores the index and puts the segment first
InsertAtFront(list, index, seg) == <<seg>> \o list

\* list.insert at the code's index `index - 1`
InsertAt(list, index, seg) ==
    LET j == Min({index, Len(list) + 1})
    IN  SubSeq(list, 1, j - 1) \o <<seg>> \o SubSeq(list, j, Len(list))

\* an insert_segment that leaves the alignment's target indices as they were
InsertSegmentNoShift(tgt, mapping, index, seg) ==
    [tgt |-> InsertAt(tgt, index, seg), al |-> mapping]

\* AlignedSegments.insert_segment
InsertSegment(tgt, mapping, index, seg) ==
    [tgt |-> InsertAt(tgt, index, seg),
     al  |-> {<<p[1], IF p[2] >= index THEN p[2] + 1 ELSE p[2]>> : p \in mapping}]

\* the first loop of reinsert_tags from source index i on; w holds tag_stack,
\* unique_closing_tags as pairs (opening index, closing index),
\* tag_to_tgt_indices and the exception raised
RECURSIVE WalkSource(_, _, _, _)
WalkSource(src, mapping, i, w) ==
    IF i > Len(src)
    THEN IF w.stack # <<>> THEN [w EXCEPT !.err = "ValueError"] ELSE w
    ELSE IF src[i].k = "NL" /\ w.stack # <<>> THEN [w EXCEPT !.err = "ValueError"]
    ELSE IF src[i].k = "OPEN"
         THEN WalkSource(src, mapping, i + 1, [w EXCEPT !.stack = Append(@, i)])
    ELSE IF src[i].k = "CLOSE"
         THEN IF w.stack = <<>> THEN [w EXCEPT !.err = "IndexError"]
              ELSE WalkSource(src, mapping, i + 1,
                      [w EXCEPT !.closing = @ \cup {<<w.stack[Len(w.stack)], i>>},
                                !.stack = SubSeq(@, 1, Len(@) - 1)])
    ELSE WalkSource(src, mapping, i + 1,
            [w EXCEPT !.tagTo = [t \in DOMAIN w.tagTo |->
                IF \E k \in 1..Len(w.stack) : w.stack[k] = t
                THEN w.tagTo[t] \cup GetSrc(mapping, i) ELSE w.tagTo[t]]])

\* one pass of the second loop, for the opening tag at source index o closed
\* at source index c; st holds tgt, the mapping, tag_to_tgt_indices and err
ReinsertTag(src, lbs, st, o, c) ==
    LET tagged  == st.tagTo[o]
        n       == BisectLeft(lbs, o)
        textSrc == {i \in 1..Len(src) : lbs[n] < i /\ i < lbs[n + 1] /\ src[i].k = "TEXT"}
        tlbs    == LineBoundaries(st.tgt)
        textTgt == {j \in 1..Len(st.tgt) :
                       tlbs[n] < j /\ j < tlbs[n + 1] /\ st.tgt[j].k = "TEXT"}
    IN  IF tagged = {} THEN st
        ELSE IF textSrc = {} THEN [st EXCEPT !.err = "ValueError"]
        ELSE LET spans == o <= Min(textSrc) /\ c >= Max(textSrc)
             IN  IF spans /\ textTgt = {} THEN [st EXCEPT !.err = "ValueError"]
                 ELSE LET mn == IF spans THEN Min({Min(tagged)} \cup textTgt) ELSE Min(tagged)
                          mx == IF spans THEN Max({Max(tagged)} \cup textTgt) ELSE Max(tagged)
                          s1 == InsertSegment(st.tgt, st.al, mn, src[o])
                          s2 == InsertSegment(s1.tgt, s1.al, mx + 2, src[c])
                      IN  [tgt   |-> s2.tgt,
                           al    |-> s2.al \cup {<<o, mn>>, <<c, mx + 2>>},
                           tagTo |-> [t \in DOMAIN st.tagTo |->
                                        {IF j > mx THEN j + 2 ELSE IF j >= mn THEN j + 1 ELSE j :
                                            j \in st.tagTo[t]}],
                           err   |-> ""]

\* the second loop over the opening tags not yet processed, in source order
RECURSIVE ReinsertLoop(_, _, _, _, _)
ReinsertLoop(src, lbs, closing, st, todo) ==
    IF todo = {} \/ st.err # "" THEN st
    ELSE LET o == Min(todo)
             c == (CHOOSE p \in closing : p[1] = o)[2]
         IN  ReinsertLoop(src, lbs, closing, ReinsertTag(src, lbs, st, o, c), todo \ {o})

\* a reinsert_tags that goes on to its second loop whatever the first found
ReinsertTagsUnchecked(src, tgt, mapping) ==
    LET lbs == LineBoundaries(src)
        w   == WalkSource(src, mapping, 1,
                  [stack |-> <<>>, closing |-> {}, tagTo |-> [t \in 1..Len(src) |-> {}],
                   err |-> ""])
        st  == ReinsertLoop(src, lbs, w.closing,
                  [tgt |-> tgt, al |-> mapping, tagTo |-> w.tagTo, err |-> ""],
                  {p[1] : p \in w.closing})
    IN  IF Len(lbs) # Len(LineBoundaries(tgt))
        THEN [err |-> "AssertionError", tgt |-> tgt, al |-> mapping]
        ELSE [err |-> st.err, tgt |-> st.tgt, al |-> st.al]

\* reinsert_tags: the exception raised or "", and aligned_segments afterwards
ReinsertTags(src, tgt, mapping) ==
    LET lbs == LineBoundaries(src)
        w   == WalkSource(src, mapping, 1,
                  [stack |-> <<>>, closing |-> {}, tagTo |-> [t \in 1..Len(src) |-> {}],
                   err |-> ""])
        st  == ReinsertLoop(src, lbs, w.closing,
                  [tgt |-> tgt, al |-> mapping, tagTo |-> w.tagTo, err |-> ""],
                  {p[1] : p \in w.closing})
    IN  IF Len(lbs) # Len(LineBoundaries(tgt))
        THEN [err |-> "AssertionError", tgt |-> tgt, al |-> mapping]
        ELSE IF w.err # "" THEN [err |-> w.err, tgt |-> tgt, al |-> mapping]
        ELSE [err |-> st.err, tgt |-> st.tgt, al |-> st.al]

(***************************************************************************)
(* TagReinserter.reinsert_segments (markuptranslator/tagreinserter.py).    *)
(* A segment object is a segment with an identity id; class                *)
(* Segment(object) compares and hashes by identity, so the alignment and   *)
(* list.index work on ids.  Indices are 1-based: code index + 1.           *)
(***************************************************************************)
Obj(id, seg) ==
    [id |-> id, k |-> seg.k, s |-> seg.s, tag |-> seg.tag, opening |-> seg.opening]

\* list.index(obj): the first position holding the object, 0 for ValueError
IndexOf(list, id) ==
    IF \E j \in 1..Len(list) : list[j].id = id
    THEN Min({j \in 1..Len(list) : list[j].id = id})
    ELSE 0

\* a _to_be_reinserted that tests for PairedTagSegment where the code tests
\* for TagSegment
ToBeReinsertedPairedOnly(alignment, seg) ==
    IF IsSrcAligned(alignment, seg.id) THEN FALSE
    ELSE IF seg.k = "PTAG" THEN TRUE
    ELSE IF seg.k = "WS" /\ seg.s # <<" ">> /\ seg.s # <<"\n">> THEN TRUE
    ELSE FALSE

\* _to_be_reinserted, for the segment itself (PairedTagSegment is a subclass
\* of TagSegment)
ToBeReinserted(alignment, seg) ==
    IF IsSrcAligned(alignment, seg.id) THEN FALSE
    ELSE IF seg.k \in {"TAG", "PTAG"} THEN TRUE
    ELSE IF seg.k = "WS" /\ seg.s # <<" ">> /\ seg.s # <<"\n">> THEN TRUE
    ELSE FALSE

\* the loop of reinsert_segments from source position index on;
\* st = [tgt, alignment, max, err], max being maximum_aligned_tgt + 1
RECURSIVE ReinsertSegmentsFrom(_, _, _)
ReinsertSegmentsFrom(src, index, st) ==
    IF index > Len(src) \/ st.err # "" THEN st
    ELSE LET seg          == src[index]
             aligned_tgts == AlGet(st.alignment, seg.id)
             touched      == AlTouch(st.alignment, seg.id)
         IN  IF \E t \in aligned_tgts : IndexOf(st.tgt, t) = 0
             THEN [st EXCEPT !.alignment = touched, !.err = "ValueError"]
             ELSE LET mx == Max({st.max} \cup {IndexOf(st.tgt, t) : t \in aligned_tgts})
                  IN  IF ~ToBeReinserted(touched, seg)
                      THEN ReinsertSegmentsFrom(src, index + 1,
                              [st EXCEPT !.alignment = touched, !.max = mx])
                      ELSE ReinsertSegmentsFrom(src, index + 1,
                              [tgt       |-> InsertAt(st.tgt, mx + 1, seg),
                               alignment |-> AlAdd(touched, seg.id, seg.id),
                               max       |-> mx + 1,
                               err       |-> ""])

\* TagReinserter.reinsert_segments
ReinsertSegments(src, tgt, alignment) ==
    ReinsertSegmentsFrom(src, 1, [tgt |-> tgt, alignment |-> alignment, max |-> 0, err |-> ""])

(***************************************************************************)
(* TagReinserter.reinsert_whitespace (markuptranslator/tagreinserter.py)   *)
(***************************************************************************)
\* SegmentedText.replace: the exception raised or "", and the list afterwards
Replace(list, old, new) ==
    LET i == IndexOf(list, old)
        replaced == [list EXCEPT ![i] = new]
    IN  IF i = 0 THEN [err |-> "ValueError", list |-> list]
        ELSE IF \E j \in i..Len(list) : replaced[j].id = old
        THEN [err |-> "ValueError", list |-> replaced]
        ELSE [err |-> "", list |-> replaced]

\* the loop of reinsert_whitespace from source position index on;
\* st = [tgt, alignment, err].  kinds gives the class of a segment object
RECURSIVE ReinsertWhitespaceFrom(_, _, _, _)
ReinsertWhitespaceFrom(src, kinds, index, st) ==
    IF index > Len(src) \/ st.err # "" THEN st
    ELSE LET seg     == src[index]
             tgts    == AlGet(st.alignment, seg.id)
             touched == AlTouch(st.alignment, seg.id)
         IN  IF seg.k # "WS" \/ Cardinality(tgts) # 1
             THEN ReinsertWhitespaceFrom(src, kinds, index + 1, [st EXCEPT !.alignment = touched])
             ELSE LET t   == CHOOSE x \in tgts : TRUE
                      rem == AlRemove(touched, seg.id, t).a
                      rep == Replace(st.tgt, t, seg)
                  IN  IF kinds[t] # "WS"
                      THEN [st EXCEPT !.alignment = touched, !.err = "AssertionError"]
                      ELSE IF rep.err # ""
                      THEN [tgt |-> rep.list, alignment |-> rem, err |-> rep.err]
                      ELSE ReinsertWhitespaceFrom(src, kinds, index + 1,
                              [tgt |-> rep.list, alignment |-> AlAdd(rem, seg.id, seg.id),
                               err |-> ""])

\* TagReinserter.reinsert_whitespace: the exception raised or "", and
\* aligned_segments afterwards
ReinsertWhitespace(src, tgt, alignment) ==
    ReinsertWhitespaceFrom(src,
        [id \in {src[i].id : i \in 1..Len(src)} \cup {tgt[j].id : j \in 1..Len(tgt)} |->
            IF \E i \in 1..Len(src) : src[i].id = id
            THEN src[CHOOSE i \in 1..Len(src) : src[i].id = id].k
            ELSE tgt[CHOOSE j \in 1..Len(tgt) : tgt[j].id = id].k],
        1, [tgt |-> tgt, alignment |-> alignment, err |-> ""])

(***************************************************************************)
(* AlignedSegments of document_translation/alignedsegments.py: the methods *)
(* besides compose.  src and tgt are sequences of segment objects, the     *)
(* alignment is over their identities.  The entries of the two vectors are *)
(* the code's target indices (0-based, -1 and len(tgt) at the ends); entry *)
(* i of the code is entry i + 1 of the sequence.                           *)
(***************************************************************************)
\* tgt_index_lookup[tgt]: a dict built by enumerate keeps the last index of
\* an object; -2 stands for the KeyError of an object that is not in tgt
TgtIndexLookup(tgt, id) ==
    IF \E j \in 1..Len(tgt) : tgt[j].id = id
    THEN Max({j \in 1..Len(tgt) : tgt[j].id = id}) - 1
    ELSE -2

\* the loop of rightmost_alignment_by_src from source position i on;
\* acc = [vec, current, al, err]
RECURSIVE RightmostFrom(_, _, _, _)
RightmostFrom(src, tgt, i, acc) ==
    IF i > Len(src) \/ acc.err # "" THEN acc
    ELSE LET ts      == AlGet(acc.al, src[i].id)
             touched == AlTouch(acc.al, src[i].id)
         IN  IF \E t \in ts : TgtIndexLookup(tgt, t) = -2
             THEN [acc EXCEPT !.al = touched, !.err = "KeyError"]
             ELSE LET cur == Max({acc.current} \cup {TgtIndexLookup(tgt, t) : t \in ts})
                  IN  RightmostFrom(src, tgt, i + 1,
                         [vec |-> Append(acc.vec, cur), current |-> cur,
                          al |-> touched, err |-> ""])

\* a rightmost_alignment_by_src whose running maximum never moves
RightmostAlignmentStuck(src, tgt, alignment) ==
    [vec |-> [i \in 1..Len(src) |-> -1], current |-> -1, al |-> alignment, err |-> ""]

\* AlignedSegments.rightmost_alignment_by_src
RightmostAlignmentBySrc(src, tgt, alignment) ==
    RightmostFrom(src, tgt, 1, [vec |-> <<>>, current |-> -1, al |-> alignment, err |-> ""])

\* the loop of leftmost_alignment_by_src from source position i down; the
\* vector is built in reverse, as list(reversed(...)) returns it
RECURSIVE LeftmostFrom(_, _, _, _)
LeftmostFrom(src, tgt, i, acc) ==
    IF i < 1 \/ acc.err # "" THEN acc
    ELSE LET ts      == AlGet(acc.al, src[i].id)
             touched == AlTouch(acc.al, src[i].id)
         IN  IF \E t \in ts : TgtIndexLookup(tgt, t) = -2
             THEN [acc EXCEPT !.al = touched, !.err = "KeyError"]
             ELSE LET cur == Min({acc.current} \cup {TgtIndexLookup(tgt, t) : t \in ts})
                  IN  LeftmostFrom(src, tgt, i - 1,
                         [vec |-> <<cur>> \o acc.vec, current |-> cur,
                          al |-> touched, err |-> ""])

\* AlignedSegments.leftmost_alignment_by_src
LeftmostAlignmentBySrc(src, tgt, alignment) ==
    LeftmostFrom(src, tgt, Len(src),
                 [vec |-> <<>>, current |-> Len(tgt), al |-> alignment, err |-> ""])

\* a search that takes the first whitespace of the range, aligned or not
FirstWhitespace(tgt, alignment, lo, hi) ==
    LET found == {j \in lo..(hi - 1) : tgt[j + 1].k = "WS"}
    IN  IF found = {} THEN -2 ELSE Min(found)

\* range(lo, hi) of target indices searched for src position i: the first j
\* whose segment is an unaligned whitespace, or -2 when there is none
FirstFreeWhitespace(tgt, alignment, lo, hi) ==
    LET free == {j \in lo..(hi - 1) :
                    /\ tgt[j + 1].k = "WS"
                    /\ ~IsTgtAligned(alignment, tgt[j + 1].id)}
    IN  IF free = {} THEN -2 ELSE Min(free)

\* the loop of infer_whitespace_alignment from source position i on
RECURSIVE InferWhitespaceFrom(_, _, _, _, _, _)
InferWhitespaceFrom(src, tgt, rightmost, leftmost, i, alignment) ==
    IF i > Len(src) THEN alignment
    ELSE LET touched == AlTouch(alignment, src[i].id)
             j == FirstFreeWhitespace(tgt, alignment, rightmost[i] + 1, leftmost[i])
         IN  IF src[i].k # "WS"
             THEN InferWhitespaceFrom(src, tgt, rightmost, leftmost, i + 1, alignment)
             ELSE IF IsSrcAligned(alignment, src[i].id) \/ j = -2
             THEN InferWhitespaceFrom(src, tgt, rightmost, leftmost, i + 1, touched)
             ELSE InferWhitespaceFrom(src, tgt, rightmost, leftmost, i + 1,
                                      AlAdd(touched, src[i].id, tgt[j + 1].id))

\* AlignedSegments.infer_whitespace_alignment: the exception raised or "",
\* and the alignment after the call
InferWhitespaceAlignment(src, tgt, alignment) ==
    LET r == RightmostAlignmentBySrc(src, tgt, alignment)
        l == LeftmostAlignmentBySrc(src, tgt, r.al)
    IN  IF r.err # "" THEN [err |-> r.err, alignment |-> r.al]
        ELSE IF l.err # "" THEN [err |-> l.err, alignment |-> l.al]
        ELSE [err |-> "",
              alignment |-> InferWhitespaceFrom(src, tgt, r.vec, l.vec, 1, l.al)]

\* the segments recover_alignment walks on the source side: all but
\* whitespace other than "\n"
SrcNonWhitespace(src) == SelectSeq(src, LAMBDA o : o.k # "WS" \/ o.s = <<"\n">>)

\* and on the target side: all but whitespace other than "\n" and sentence
\* separators
TgtNonWhitespace(tgt) == SelectSeq(tgt, LAMBDA o : o.k \notin {"WS", "SEP"} \/ o.s = <<"\n">>)

\* the loops of recover_alignment: RecoverOuter takes the next target
\* segment tgts[q], RecoverInner matches the rest r of its string against
\* the next source segment srcs[p]; pairs added before a failure stay
RECURSIVE RecoverOuter(_, _, _, _, _)
RECURSIVE RecoverInner(_, _, _, _, _, _)
RecoverInner(srcs, tgts, p, q, r, alignment) ==
    IF p > Len(srcs) THEN [err |-> "StopIteration", alignment |-> alignment]
    ELSE LET added == AlAdd(alignment, srcs[p].id, tgts[q].id)
         IN  IF srcs[p].s = r THEN RecoverOuter(srcs, tgts, p + 1, q + 1, added)
             ELSE IF StartsWith(r, srcs[p].s)
             THEN RecoverInner(srcs, tgts, p + 1, q,
                               SubSeq(r, Len(srcs[p].s) + 1, Len(r)), added)
             ELSE [err |-> "AssertionError", alignment |-> alignment]

RecoverOuter(srcs, tgts, p, q, alignment) ==
    IF q > Len(tgts)
    THEN [err |-> IF p > Len(srcs) THEN "" ELSE "AssertionError", alignment |-> alignment]
    ELSE RecoverInner(srcs, tgts, p, q, tgts[q].s, alignment)

\* a recover_alignment that returns at once, whatever the two texts are
RecoverAlignmentSkipped(src, tgt, alignment) == [err |-> "", alignment |-> alignment]

\* AlignedSegments.recover_alignment: the exception raised or "", and the
\* alignment after the call
RecoverAlignment(src, tgt, alignment) ==
    IF ~IsEmpty(alignment) THEN [err |-> "AssertionError", alignment |-> alignment]
    ELSE RecoverOuter(SrcNonWhitespace(src), TgtNonWhitespace(tgt), 1, 1, alignment)

\* the segments whose string is "\n"
Newlines(segs) == SelectSeq(segs, LAMBDA o : o.s = <<"\n">>)

\* a recover_newline_alignment that checks the counts and pairs nothing
RecoverNewlineAlignmentCountOnly(src, tgt, alignment) ==
    [err |-> IF Len(Newlines(src)) # Len(Newlines(tgt)) THEN "AssertionError" ELSE "",
     alignment |-> alignment]

\* AlignedSegments.recover_newline_alignment
RecoverNewlineAlignment(src, tgt, alignment) ==
    IF Len(Newlines(src)) # Len(Newlines(tgt))
    THEN [err |-> "AssertionError", alignment |-> alignment]
    ELSE [err |-> "",
          alignment |-> UpdateFromIterable(alignment,
                           [i \in 1..Len(Newlines(src)) |->
                               <<Newlines(src)[i].id, Newlines(tgt)[i].id>>])]

\* Alignment.swap
AlSwap(a) == AddAll(EmptyAlignment, {<<p[2], p[2], p[1]>> : p \in a.pairs})

\* AlignedSegments.swap_sides
SwapSides(a) == AlignedSegments(a.tgt, a.src, AlSwap(a.alignment))

\* Alignment.__add__(self = a, other = b): res is the returned alignment,
\* self is a after the call.  The new defaultdict is a shallow copy, so it
\* shares the sets of a: a pair of b under a key of a lands in a's set too,
\* with no change to a's counter.
AlUnion(a, b) ==
    [res  |-> [AddAll(AddAll(EmptyAlignment, {<<p[1], p[1], p[2]>> : p \in a.pairs}),
                      {<<p[1], p[1], p[2]>> : p \in b.pairs})
                 EXCEPT !.dom = a.dom \cup {p[1] : p \in b.pairs}],
     self |-> [a EXCEPT !.pairs = @ \cup {p \in b.pairs : p[1] \in a.dom}]]

\* AlignedSegments.__add__(self = a, other = b)
AsConcat(a, b) ==
    [res  |-> AlignedSegments(a.src \o b.src, a.tgt \o b.tgt,
                              AlUnion(a.alignment, b.alignment).res),
     self |-> [a EXCEPT !.alignment = AlUnion(a.alignment, b.alignment).self]]

\* list.insert(index, seg) with Python's 0-based index: a negative index
\* counts from the end, and the position is clamped into the list
ListInsert(list, index, seg) ==
    LET n == Len(list)
        i == IF index < 0 THEN Max({index + n, 0}) ELSE Min({index, n})
    IN  SubSeq(list, 1, i) \o <<seg>> \o SubSeq(list, i + 1, n)

\* list.pop(index): IndexError outside -len..len-1
ListPop(list, index) ==
    LET n == Len(list)
        i == IF index < 0 THEN index + n ELSE index
    IN  IF i < 0 \/ i >= n
        THEN [err |-> "IndexError", list |-> list]
        ELSE [err |-> "", list |-> SubSeq(list, 1, i) \o SubSeq(list, i + 2, n)]

\* AlignedSegments.insert_segment: the target list alone changes
AsInsertSegment(a, index, seg) == [a EXCEPT !.tgt = ListInsert(@, index, seg)]

\* AlignedSegments.remove_segment: the target list alone changes, the
\* alignment keeps its pairs
AsRemoveSegment(a, index) ==
    [err |-> ListPop(a.tgt, index).err,
     obj |-> [a EXCEPT !.tgt = ListPop(@, index).list]]

\* SegmentedText.from_sentences on a list of sentence strings, the segments
\* numbered in order as objects <<origin, n>>: from_string on every
\* sentence, a SentenceSeparator after each, the last one dropped
FromSentences(sentences, origin) ==
    LET lexed == [n \in 1..Len(sentences) |-> FromString(sentences[n])]
        RECURSIVE Cat(_)
        Cat(n) == IF n = 0 THEN <<>>
                  ELSE Cat(n - 1) \o lexed[n].segs \o <<SentenceSeparator>>
        all == Cat(Len(sentences))
    IN  IF \E n \in 1..Len(sentences) : ~lexed[n].ok
        THEN [err  |-> lexed[Min({n \in 1..Len(sentences) : ~lexed[n].ok})].err,
              segs |-> <<>>]
        ELSE [err  |-> "",
              segs |-> [i \in 1..(Len(all) - 1) |-> Obj(<<origin, i>>, all[i])]]

\* SegmentedText.split_sentences: the runs between sentence separators, one
\* more than there are separators
SplitSentences(segs) ==
    LET cuts == <<0>> \o SelectSeq([i \in 1..Len(segs) |-> i], LAMBDA i : segs[i].k = "SEP")
                      \o <<Len(segs) + 1>>
    IN  [n \in 1..(Len(cuts) - 1) |-> SubSeq(segs, cuts[n] + 1, cuts[n + 1] - 1)]

\* MarkupTranslator.aligner_view: the words, the sentence separators and the
\* newlines
AlignerView(segs) ==
    SelectSeq(segs, LAMBDA o : o.k = "TEXT" \/ o.k = "SEP" \/ o.s = <<"\n">>)

\* MarkupTranslator.align_segments, given what aligner.align answers: the
\* exception raised or "", whether the aligner was invoked, and the alignment
\* of the AlignedSegments returned
AlignSegments(src, tgt, answer) ==
    LET srcS == SplitSentences(src)
        tgtS == SplitSentences(tgt)
        n    == Min({Len(srcS), Len(tgtS), Len(answer)})
        \* list[i] for a Python index i: a negative index counts from the end
        PyInRange(list, i) == -Len(list) <= i /\ i < Len(list)
        PyAt(list, i) == list[IF i < 0 THEN Len(list) + i + 1 ELSE i + 1]
    IN  IF Len(srcS) # Len(tgtS)
        THEN [err |-> "AssertionError", invoked |-> FALSE, alignment |-> EmptyAlignment]
        ELSE IF \E k \in 1..n : \E h \in 1..Len(answer[k]) :
                   ~(PyInRange(srcS[k], answer[k][h][1]) /\ PyInRange(tgtS[k], answer[k][h][2]))
        THEN [err |-> "IndexError", invoked |-> TRUE, alignment |-> EmptyAlignment]
        ELSE [err |-> "", invoked |-> TRUE,
              alignment |-> AddAll(EmptyAlignment,
                  UNION {{<<PyAt(srcS[k], answer[k][h][1]).id,
                            PyAt(srcS[k], answer[k][h][1]).id,
                            PyAt(tgtS[k], answer[k][h][2]).id>> : h \in 1..Len(answer[k])} :
                         k \in 1..n})]

\* the loop of translator_view from position i on; acc holds
\* src_for_translator and the alignment built so far.  A WhitespaceSegment(" ")
\* made by the call is a new object, named by its position in the view
RECURSIVE TranslatorViewFrom(_, _, _)
TranslatorViewFrom(segs, i, acc) ==
    IF i > Len(segs) THEN acc
    ELSE LET seg   == segs[i]
             fresh == Obj(<<"V", Len(acc.tgt) + 1>>, WhitespaceSegment(<<" ">>))
         IN  IF seg.k \in {"TAG", "PTAG"} /\ (seg.tag = <<"x">> \/ seg.tag = <<"l", "b">>)
             THEN TranslatorViewFrom(segs, i + 1, [acc EXCEPT !.tgt = Append(@, fresh)])
             ELSE IF seg.k \in {"TAG", "PTAG"}
             THEN TranslatorViewFrom(segs, i + 1, acc)
             ELSE IF seg.k = "WS" /\ seg.s # <<"\n">> /\ seg.s # <<" ">>
             THEN TranslatorViewFrom(segs, i + 1,
                     [acc EXCEPT !.tgt = Append(@, fresh),
                                 !.alignment = AlAdd(@, seg.id, fresh.id)])
             ELSE TranslatorViewFrom(segs, i + 1,
                     [acc EXCEPT !.tgt = Append(@, seg),
                                 !.alignment = AlAdd(@, seg.id, seg.id)])

\* a translator_view that hands the text on as it is, every segment aligned
\* to itself
TranslatorViewKeepingAll(segs) ==
    AlignedSegments(segs, segs,
        AddAll(EmptyAlignment, {<<segs[i].id, segs[i].id, segs[i].id>> : i \in 1..Len(segs)}))

\* MarkupTranslator.translator_view: the text handed in, the view and the
\* alignment between them
TranslatorView(segs) ==
    TranslatorViewFrom(segs, 1, AlignedSegments(segs, <<>>, EmptyAlignment))

(***************************************************************************)
(* BatchRequest of document_translation/lindat_services/batch_request.py   *)
(* ("clean") and of src/batch_request.py ("noclean", the class that        *)
(* src/translate.py and src/lindat_services/align.py import).  A line is   *)
(* [id, size]: id tells the lines apart, size is compute_size(line).  An   *)
(* object is [batch, bytes, results]; sent collects the batches the        *)
(* callback is invoked with, invoked counts its invocations in the         *)
(* operation under way, and the invocation number failAt raises (none for  *)
(* failAt = 0).                                                            *)
(***************************************************************************)
\* what the callback returns for a batch: one result per line
Callback(batch) == [i \in 1..Len(batch) |-> <<"result", batch[i].id>>]

RECURSIVE TotalSize(_)
TotalSize(batch) == IF batch = <<>> THEN 0 ELSE Head(batch).size + TotalSize(Tail(batch))

\* BatchRequest._send_batch: the callback raises before anything is assigned
SendBatch(st, failAt) ==
    IF st.invoked + 1 = failAt
    THEN [st EXCEPT !.sent = Append(@, st.batch), !.invoked = @ + 1, !.err = "CallbackError"]
    ELSE [st EXCEPT !.sent = Append(@, st.batch), !.invoked = @ + 1,
                    !.results = @ \o Callback(st.batch), !.batch = <<>>, !.bytes = 0]

\* BatchRequest.__call__
CallLine(st, line, max, failAt) ==
    LET sent == IF st.bytes + line.size > max THEN SendBatch(st, failAt) ELSE st
    IN  IF sent.err # "" THEN sent
        ELSE [sent EXCEPT !.batch = Append(@, line), !.bytes = @ + line.size]

\* BatchRequest.flush
Flush(st, failAt) == IF st.batch # <<>> THEN SendBatch(st, failAt) ELSE st

\* BatchRequest.clean
Clean(st) == [st EXCEPT !.batch = <<>>, !.bytes = 0, !.results = <<>>]

\* the loop of batch_process from line i on
RECURSIVE FeedFrom(_, _, _, _, _)
FeedFrom(st, lines, i, max, failAt) ==
    IF i > Len(lines) \/ st.err # "" THEN st
    ELSE FeedFrom(CallLine(st, lines[i], max, failAt), lines, i + 1, max, failAt)

\* BatchRequest.batch_process: the object afterwards (with the exception
\* raised or ""), and the list returned
BatchProcess(impl, st, lines, max, failAt) ==
    LET fed     == FeedFrom(st, lines, 1, max, failAt)
        flushed == IF fed.err # "" THEN fed ELSE Flush(fed, failAt)
    IN  IF flushed.err # "" THEN [st |-> flushed, ret |-> <<>>]
        ELSE [st  |-> IF impl = "clean" THEN Clean(flushed) ELSE flushed,
              ret |-> flushed.results]

(***************************************************************************)
(* Idle values of each component's variables                               *)
(***************************************************************************)
NoCall == [ok |-> FALSE, err |-> "none", segs |-> <<>>]
NoOp == [op |-> "none", s |-> 0, t |-> 0]

LexIdle == lexIn = <<>> /\ lexOut = NoCall
AlIdle == segImpl = "object" /\ al = EmptyAlignment /\ alOp = NoOp /\ alErr = ""
CmpIdle == cmp = <<>> /\ cmpErr = ""
RtIdle == rtSrc = <<>> /\ rtTgt = <<>> /\ rtAl = {} /\ rtErr = "none"
RsIdle == rsSrc = <<>> /\ rsTgt = <<>> /\ rsAl = EmptyAlignment /\ rsErr = "none"
AsIdle == asA = NoResult /\ asB = NoResult /\ asRes = NoResult /\ asErr = "none"
BrIdle ==
    brImpl = "none" /\ brMax = 0 /\ brBatch = <<>> /\ brBytes = 0 /\ brResults = <<>>
    /\ brSent = <<>> /\ brOp = NoOp /\ brCalls = 0
SnIdle == snSents = <<>> /\ snText = NoCall /\ snSplit = <<>>
PlIdle ==
    plSrc = <<>> /\ plStage = "none" /\ plErr = "" /\ plSrcSents = <<>> /\ plTgtSents = <<>>
    /\ plAnswer = <<>> /\ plView = NoResult /\ plSrcSide = NoResult /\ plTokens = NoResult
    /\ plTgtText = <<>> /\ plFinal = NoResult
TvIdle == tvText = <<>> /\ tvOut = NoResult
AgIdle == agView = <<>> /\ agSrcSents = <<>> /\ agTgtSents = <<>> /\ agAnswer = <<>> /\ agOut = NoCall
TlIdle == tlSrc = <<>> /\ tlRun = <<>> /\ tlErr = "" /\ tlTranslator = 0 /\ tlAligner = 0
IvIdle ==
    ivObj = NoResult /\ ivPrev = NoResult /\ ivErr = "" /\ ivCalls = 0 /\ ivOp = "none"
    /\ ivBefore = NoResult

(***************************************************************************)
(* Specification SpecLex: from_string on every string up to MaxStrLen      *)
(***************************************************************************)
InitLex ==
    /\ lexIn \in StringsUpTo(MaxStrLen)
    /\ lexOut = NoCall
    /\ AlIdle
    /\ CmpIdle
    /\ AsIdle
    /\ RtIdle
    /\ RsIdle
    /\ IvIdle
    /\ TlIdle
    /\ AgIdle
    /\ TvIdle
    /\ PlIdle
    /\ SnIdle
    /\ BrIdle

CallFromString ==
    /\ lexOut = NoCall
    /\ lexOut' = FromString(lexIn)
    /\ UNCHANGED <<lexIn, alVars, cmpVars, asVars, rtVars, rsVars, ivVars, tlVars, agVars, tvVars, plVars, snVars, brVars>>

NextLex == CallFromString

SpecLex == InitLex /\ [][NextLex]_vars

\* C1: whenever from_string(s) returns, the surface strings of the returned
\* segments, joined in order, are exactly s.
C1_SegmentJoinEqualsInput ==
    lexOut.ok => Str(lexOut.segs) = lexIn

\* a returned text of several segments, a paired tag and whitespace among them
C1_Witness ==
    /\ lexOut.ok
    /\ Len(lexOut.segs) >= 3
    /\ \E i \in 1..Len(lexOut.segs) : lexOut.segs[i].k = "PTAG"
    /\ \E i \in 1..Len(lexOut.segs) : lexOut.segs[i].k = "WS"

\* C17: a markup-like token of the input (one that opens with "<" or "</",
\* spells a tag name and closes with ">") whose tag name is not exactly one
\* of g, x, bx, ex, lb, mrk never makes from_string fail and is returned as
\* a TEXT segment, never as a TAG or PAIRED_TAG segment.
C17_UnknownMarkupIsText ==
    lexOut # NoCall =>
        LET strs == Findall(lexIn, 1)
            at(t) == IF StartsWith(t, <<"<", "/">>) THEN 3 ELSE 2
            name(t) == IF at(t) <= Len(t) /\ IsWord(t[at(t)]) THEN WordRun(t, at(t)) ELSE <<>>
            unknown(t) == /\ t[1] = "<"
                          /\ t[Len(t)] = ">"
                          /\ name(t) # <<>>
                          /\ \A i \in 1..Len(TagNames) : name(t) # TagNames[i]
        IN  \A i \in 1..Len(strs) :
               unknown(strs[i]) => lexOut.ok /\ lexOut.segs[i].k = "TEXT"

(***************************************************************************)
(* Specification SpecAlign: one Alignment object under add, remove,        *)
(* update_from_iterable and get, for either Segment class                  *)
(***************************************************************************)
AlAll == AlSrcs \cup AlTgts
K(i) == SegKey(segImpl, i)
AlKeys == {K(i) : i \in AlAll}

InitAlign ==
    /\ segImpl \in {"str", "object"}
    /\ al = EmptyAlignment
    /\ alOp = NoOp
    /\ alErr = ""
    /\ LexIdle
    /\ CmpIdle
    /\ AsIdle
    /\ RtIdle
    /\ RsIdle
    /\ IvIdle
    /\ TlIdle
    /\ AgIdle
    /\ TvIdle
    /\ PlIdle
    /\ SnIdle
    /\ BrIdle

Add(s, t) ==
    /\ Count(al, K(t)) < MaxCount
    /\ al' = AlAdd(al, K(s), K(t))
    /\ alOp' = [op |-> "add", s |-> s, t |-> t]
    /\ alErr' = ""
    /\ UNCHANGED <<segImpl, lexVars, cmpVars, asVars, rtVars, rsVars, ivVars, tlVars, agVars, tvVars, plVars, snVars, brVars>>

Remove(s, t) ==
    /\ al' = AlRemove(al, K(s), K(t)).a
    /\ alErr' = AlRemove(al, K(s), K(t)).err
    /\ alOp' = [op |-> "remove", s |-> s, t |-> t]
    /\ UNCHANGED <<segImpl, lexVars, cmpVars, asVars, rtVars, rsVars, ivVars, tlVars, agVars, tvVars, plVars, snVars, brVars>>

PairLists ==
    UNION {[1..n -> AlSrcs \X AlTgts] : n \in 0..MaxIter}

Update(list) ==
    /\ \A i \in 1..Len(list) : Count(al, K(list[i][2])) + Len(list) <= MaxCount
    /\ al' = UpdateFromIterable(al, [i \in 1..Len(list) |-> <<K(list[i][1]), K(list[i][2])>>])
    /\ alOp' = [op |-> "update", s |-> 0, t |-> 0]
    /\ alErr' = ""
    /\ UNCHANGED <<segImpl, lexVars, cmpVars, asVars, rtVars, rsVars, ivVars, tlVars, agVars, tvVars, plVars, snVars, brVars>>

Get(s) ==
    /\ al' = AlTouch(al, K(s))
    /\ alOp' = [op |-> "get", s |-> s, t |-> 0]
    /\ alErr' = ""
    /\ UNCHANGED <<segImpl, lexVars, cmpVars, asVars, rtVars, rsVars, ivVars, tlVars, agVars, tvVars, plVars, snVars, brVars>>

NextAlign ==
    \/ \E s \in AlSrcs, t \in AlTgts : Add(s, t)
    \/ \E s \in AlSrcs, t \in AlTgts : Remove(s, t)
    \/ \E list \in PairLists : Update(list)
    \/ \E s \in AlAll : Get(s)

SpecAlign == InitAlign /\ [][NextAlign]_vars

SameString(i, j) == i # j /\ AlSegString[i] = AlSegString[j]

\* C7: segments are alignment keys by identity: adding the pair (s1, t) leaves
\* is_src_aligned(s2) and get(s2) as they were for every other segment s2 with
\* the same surface string as s1, and leaves is_tgt_aligned(t2) as it was for
\* every other segment t2 with the same surface string as t.
C7_IdentityKeys ==
    [][alOp'.op = "add" =>
          /\ \A s2 \in AlAll : SameString(s2, alOp'.s) =>
                /\ IsSrcAligned(al', K(s2)) = IsSrcAligned(al, K(s2))
                /\ AlGet(al', K(s2)) = AlGet(al, K(s2))
          /\ \A t2 \in AlAll : SameString(t2, alOp'.t) =>
                IsTgtAligned(al', K(t2)) = IsTgtAligned(al, K(t2))]_vars

\* C8: after any sequence of add, update_from_iterable and remove,
\* is_tgt_aligned(t) holds exactly when some pair (s, t) is in the relation,
\* and is_src_aligned(s) exactly when some pair (s, t) is.
C8_AlignedIffPair ==
    /\ \A t \in AlKeys : IsTgtAligned(al, t) <=> \E p \in al.pairs : p[2] = t
    /\ \A s \in AlKeys : IsSrcAligned(al, s) <=> \E p \in al.pairs : p[1] = s

\* C9: remove(src, tgt) of a pair that is not in the relation raises, and the
\* relation and the answers of get, is_src_aligned, is_tgt_aligned and
\* is_empty are after the failure what they were before the call.
C9_RemoveAbsentFails ==
    [][(alOp'.op = "remove" /\ <<K(alOp'.s), K(alOp'.t)>> \notin al.pairs) =>
          /\ alErr' = "KeyError"
          /\ Observe(al', AlKeys) = Observe(al, AlKeys)]_vars

\* a failed remove on an alignment that holds another pair with the same target
C9_Witness ==
    /\ alOp.op = "remove"
    /\ alErr = "KeyError"
    /\ \E p \in al.pairs : p[2] = K(alOp.t) /\ p[1] # K(alOp.s)

(***************************************************************************)
(* Specification SpecCompose: alignments A, B and C and the compositions   *)
(* AB = A.compose(B), BC = B.compose(C), L = AB.compose(C),                *)
(* R = A.compose(BC) and AA = A.compose(A)                                 *)
(***************************************************************************)
CmpSegs == {"m1", "m2", "t1"}

\* the relations over CmpSegs of at most n pairs
CmpRelations(n) == {S \in SUBSET (CmpSegs \X CmpSegs) : Cardinality(S) <= n}

RECURSIVE SetToSeq(_)
SetToSeq(S) ==
    IF S = {} THEN <<>>
    ELSE LET x == CHOOSE y \in S : TRUE IN <<x>> \o SetToSeq(S \ {x})

ExampleA == {<<"s1", "m1">>, <<"s2", "m2">>}
ExampleB == {<<"m1", "t1">>, <<"m2", "t2">>, <<"m1", "t3">>}

\* self and other of the compose call that computes each name
CmpOperands ==
    [AB |-> <<"A", "B">>, BC |-> <<"B", "C">>, L |-> <<"AB", "C">>,
     R |-> <<"A", "BC">>, AA |-> <<"A", "A">>]

CmpStart(A, B, C) ==
    /\ cmp = [n \in {"A", "B", "C"} |->
                 FromIterable(SetToSeq(IF n = "A" THEN A ELSE IF n = "B" THEN B ELSE C))]
    /\ cmpErr = ""

InitCompose ==
    /\ \/ \E A \in CmpRelations(MaxPairs) :
             \E B \in CmpRelations(MaxPairs - Cardinality(A)) :
                \E C \in CmpRelations(MaxPairs - Cardinality(A) - Cardinality(B)) :
                   CmpStart(A, B, C)
       \/ CmpStart(ExampleA, ExampleB, {})
    /\ LexIdle
    /\ AlIdle
    /\ AsIdle
    /\ RtIdle
    /\ RsIdle
    /\ IvIdle
    /\ TlIdle
    /\ AgIdle
    /\ TvIdle
    /\ PlIdle
    /\ SnIdle
    /\ BrIdle

\* cmp[z] = cmp[x].compose(cmp[y]) for two different objects
Compose(z) ==
    LET x == CmpOperands[z][1]
        y == CmpOperands[z][2]
        r == AlCompose(cmp[x], cmp[y])
    IN  /\ cmpErr = ""
        /\ z \notin DOMAIN cmp
        /\ "AA" \notin DOMAIN cmp
        /\ x \in DOMAIN cmp /\ y \in DOMAIN cmp
        /\ cmp' = [n \in DOMAIN cmp \cup {z} |->
                      IF n = z THEN r.res ELSE IF n = y THEN r.other ELSE cmp[n]]
        /\ cmpErr' = ""
        /\ UNCHANGED <<lexVars, alVars, asVars, rtVars, rsVars, ivVars, tlVars, agVars, tvVars, plVars, snVars, brVars>>

\* A.compose(A): other.get(tgt) inserts into the dict being iterated
ComposeSelf ==
    /\ cmpErr = ""
    /\ DOMAIN cmp = {"A", "B", "C"}
    /\ IF SelfComposeOffending(cmp["A"]) = {}
       THEN /\ cmp' = [n \in DOMAIN cmp \cup {"AA"} |->
                          IF n = "AA" THEN AlCompose(cmp["A"], cmp["A"]).res ELSE cmp[n]]
            /\ cmpErr' = ""
       ELSE /\ \E s \in SelfComposeOffending(cmp["A"]) :
                  cmp' = [cmp EXCEPT !["A"].dom = @ \cup AlGet(cmp["A"], s)]
            /\ cmpErr' = "RuntimeError"
    /\ UNCHANGED <<lexVars, alVars, asVars, rtVars, rsVars, ivVars, tlVars, agVars, tvVars, plVars, snVars, brVars>>

NextCompose ==
    \/ \E z \in {"AB", "BC", "L", "R"} : Compose(z)
    \/ ComposeSelf

SpecCompose == InitCompose /\ [][NextCompose]_vars

\* C5: every alignment compose returns holds exactly the relational
\* composition of its operands: (a, c) is in it iff (a, b) is in self and
\* (b, c) in other for some b; on A = {(s1,m1),(s2,m2)} and
\* B = {(m1,t1),(m2,t2),(m1,t3)} it is exactly {(s1,t1),(s1,t3),(s2,t2)}.
C5_ComposeIsRelationalComposition ==
    /\ \A z \in DOMAIN cmp \cap DOMAIN CmpOperands :
          LET R == ToList(cmp[CmpOperands[z][1]])
              S == ToList(cmp[CmpOperands[z][2]])
          IN  ToList(cmp[z]) =
                 {<<pq[1][1], pq[2][2]>> : pq \in {rs \in R \X S : rs[1][2] = rs[2][1]}}
    /\ ("AB" \in DOMAIN cmp /\ ToList(cmp["A"]) = ExampleA /\ ToList(cmp["B"]) = ExampleB)
          => ToList(cmp["AB"]) = {<<"s1", "t1">>, <<"s1", "t3">>, <<"s2", "t2">>}

\* compose has returned on the operands of the example, and elsewhere on
\* operands where one pair arises from two middle segments
C5_Witness ==
    /\ "AB" \in DOMAIN cmp
    /\ \/ ToList(cmp["A"]) = ExampleA /\ ToList(cmp["B"]) = ExampleB
       \/ \E t \in DOMAIN cmp["AB"].cnt : cmp["AB"].cnt[t] = 2 /\ Cardinality(ToList(cmp["AB"])) = 1

\* C6: composition is associative: (A.compose(B)).compose(C) and
\* A.compose(B.compose(C)) hold exactly the same set of pairs.
C6_ComposeAssociative ==
    ({"L", "R"} \subseteq DOMAIN cmp) => ToList(cmp["L"]) = ToList(cmp["R"])

\* both sides computed and not empty, from an A of two pairs
C6_Witness ==
    /\ {"L", "R"} \subseteq DOMAIN cmp
    /\ ToList(cmp["L"]) # {}
    /\ Cardinality(ToList(cmp["A"])) = 2

(***************************************************************************)
(* Specification SpecAligned: A.compose(B) for AlignedSegments A and B     *)
(* whose middle texts are drawn from segments "a", "b" and "ab"            *)
(***************************************************************************)
AsSrc == << [id |-> "s1", s |-> <<"x">>] >>
AsTgt == << [id |-> "t1", s |-> <<"y">>], [id |-> "t2", s |-> <<"z">>] >>
AsMid ==
    { [id |-> "m1", s |-> <<"a">>], [id |-> "m2", s |-> <<"b">>],
      [id |-> "m3", s |-> <<"a", "b">>] }

\* the texts of at most MaxTextLen segments of AsMid, no object twice
AsTexts ==
    {t \in UNION {[1..n -> AsMid] : n \in 0..MaxTextLen} :
        \A i, j \in 1..Len(t) : i # j => t[i] # t[j]}

Ids(text) == {text[i].id : i \in 1..Len(text)}
AsIds == Ids(AsSrc) \cup Ids(AsTgt) \cup {m.id : m \in AsMid}

InitAligned ==
    /\ \E mid1 \in AsTexts, mid2 \in AsTexts :
          \E a1 \in SUBSET (Ids(AsSrc) \X Ids(mid1)), a2 \in SUBSET (Ids(mid2) \X Ids(AsTgt)) :
             /\ asA = AlignedSegments(AsSrc, mid1, FromIterable(SetToSeq(a1)))
             /\ asB = AlignedSegments(mid2, AsTgt, FromIterable(SetToSeq(a2)))
    /\ asRes = NoResult
    /\ asErr = "none"
    /\ LexIdle
    /\ AlIdle
    /\ CmpIdle
    /\ RtIdle
    /\ RsIdle
    /\ IvIdle
    /\ TlIdle
    /\ AgIdle
    /\ TvIdle
    /\ PlIdle
    /\ SnIdle
    /\ BrIdle

ComposeAligned ==
    /\ asErr = "none"
    /\ asErr' = AsCompose(asA, asB).err
    /\ asRes' = AsCompose(asA, asB).res
    /\ asB' = AsCompose(asA, asB).other
    /\ UNCHANGED <<asA, lexVars, alVars, cmpVars, rtVars, rsVars, ivVars, tlVars, agVars, tvVars, plVars, snVars, brVars>>

NextAligned == ComposeAligned

SpecAligned == InitAligned /\ [][NextAligned]_vars

\* C10: A.compose(B) fails and returns nothing when str(A.tgt) # str(B.src);
\* otherwise it returns an AlignedSegments with source A.src, target B.tgt and
\* the composition of the two alignments; A and B are after the call what
\* they were before it.
C10_AlignedSegmentsCompose ==
    [][(asErr = "none" /\ asErr' # "none") =>
          /\ IF Str(asA.tgt) # Str(asB.src)
             THEN asErr' = "AssertionError" /\ asRes' = NoResult
             ELSE /\ asErr' = ""
                  /\ asRes'.src = asA.src
                  /\ asRes'.tgt = asB.tgt
                  /\ ToList(asRes'.alignment) =
                        {<<pq[1][1], pq[2][2]>> : pq \in
                            {rs \in ToList(asA.alignment) \X ToList(asB.alignment) :
                                rs[1][2] = rs[2][1]}}
          /\ asA'.src = asA.src /\ asA'.tgt = asA.tgt
          /\ Observe(asA'.alignment, AsIds) = Observe(asA.alignment, AsIds)
          /\ asB'.src = asB.src /\ asB'.tgt = asB.tgt
          /\ Observe(asB'.alignment, AsIds) = Observe(asB.alignment, AsIds)]_vars

\* a compose that returned a non-empty alignment over a middle text of two segments
C10_Witness ==
    /\ asErr = ""
    /\ Len(asA.tgt) = 2
    /\ ToList(asRes.alignment) # {}

(***************************************************************************)
(* Specification SpecTags: reinsert_tags on every source of at most        *)
(* MaxTagSegs paired tags and MaxItems other segments, every target of at  *)
(* most MaxTgtLen segments without tags, and every alignment between them  *)
(***************************************************************************)
RtSources ==
    {[i \in 1..Len(ks) |-> [k |-> ks[i], src |-> i]] : ks \in
        {q \in UNION {[1..n -> {"OPEN", "CLOSE", "TEXT", "WS", "NL"}] :
                          n \in 0..(MaxTagSegs + MaxItems)} :
            /\ Cardinality({i \in 1..Len(q) : q[i] \in {"OPEN", "CLOSE"}}) <= MaxTagSegs
            /\ Cardinality({i \in 1..Len(q) : q[i] \notin {"OPEN", "CLOSE"}}) <= MaxItems}}

RtTargets ==
    {[j \in 1..Len(ks) |-> [k |-> ks[j], src |-> 0]] : ks \in
        UNION {[1..n -> {"TEXT", "NL"}] : n \in 0..MaxTgtLen}}

\* the source indices an aligner can name: every segment but the paired tags
RtAlignable(src) == {i \in 1..Len(src) : src[i].k \notin {"OPEN", "CLOSE"}}

InitTags ==
    /\ rtSrc \in RtSources
    /\ rtTgt \in RtTargets
    /\ rtAl \in SUBSET (RtAlignable(rtSrc) \X (1..Len(rtTgt)))
    /\ rtErr = "none"
    /\ LexIdle
    /\ AlIdle
    /\ CmpIdle
    /\ AsIdle
    /\ RsIdle
    /\ IvIdle
    /\ TlIdle
    /\ AgIdle
    /\ TvIdle
    /\ PlIdle
    /\ SnIdle
    /\ BrIdle

CallReinsertTags ==
    /\ rtErr = "none"
    /\ rtErr' = ReinsertTags(rtSrc, rtTgt, rtAl).err
    /\ rtTgt' = ReinsertTags(rtSrc, rtTgt, rtAl).tgt
    /\ rtAl' = ReinsertTags(rtSrc, rtTgt, rtAl).al
    /\ UNCHANGED <<rtSrc, lexVars, alVars, cmpVars, asVars, rsVars, ivVars, tlVars, agVars, tvVars, plVars, snVars, brVars>>

NextTags == CallReinsertTags

SpecTags == InitTags /\ [][NextTags]_vars

\* the index in the target of the segment that is the source object i, or 0
RtPos(i) ==
    IF \E j \in 1..Len(rtTgt) : rtTgt[j].src = i
    THEN CHOOSE j \in 1..Len(rtTgt) : rtTgt[j].src = i
    ELSE 0

\* the paired tags of the source, by nesting: (opening index, closing index)
RtPairs == WalkSource(rtSrc, {}, 1,
              [stack |-> <<>>, closing |-> {}, tagTo |-> [t \in 1..Len(rtSrc) |-> {}],
               err |-> ""]).closing

\* C2: when reinsert_tags has completed, every opening paired tag in the
\* target has its own closing tag later in the target, and any two reinserted
\* pairs are nested or disjoint, never partially overlapping.
C2_WellFormedBracketing ==
    rtErr = "" =>
       /\ \A p \in RtPairs :
             RtPos(p[1]) # 0 => (RtPos(p[2]) # 0 /\ RtPos(p[1]) < RtPos(p[2]))
       /\ \A p, q \in RtPairs :
             (RtPos(p[1]) # 0 /\ RtPos(q[1]) # 0 /\ RtPos(p[1]) < RtPos(q[1])) =>
                (RtPos(p[2]) < RtPos(q[1]) \/ RtPos(q[2]) < RtPos(p[2]))

\* C13: reinsert_tags fails on every source whose paired tags are not well
\* nested within one line - a "\n" segment while a paired tag is open, a
\* closing tag with no tag open, an opening tag never closed - and it fails
\* before inserting anything: the target and the alignment are as they were.
C13_IllNestedSourceRejected ==
    [][LET depth(i) == Cardinality({h \in 1..i : rtSrc[h].k = "OPEN"})
                         - Cardinality({h \in 1..i : rtSrc[h].k = "CLOSE"})
       IN  (/\ rtErr = "none"
            /\ rtErr' # "none"
            /\ \/ \E i \in 1..Len(rtSrc) : rtSrc[i].k = "NL" /\ depth(i) > 0
               \/ \E i \in 1..Len(rtSrc) : rtSrc[i].k = "CLOSE" /\ depth(i) < 0
               \/ depth(Len(rtSrc)) > 0)
           => /\ rtErr' \in {"ValueError", "IndexError", "AssertionError"}
              /\ rtTgt' = rtTgt
              /\ rtAl' = rtAl
      ]_vars

\* reinsert_tags has raised ValueError on a source whose opening tag is
\* followed by an aligned text and by no closing tag; the target holds that
\* text's counterpart and no tag
C13_Witness ==
    /\ rtErr = "ValueError"
    /\ \E o \in 1..Len(rtSrc), i \in 1..Len(rtSrc) :
          /\ o < i
          /\ rtSrc[o].k = "OPEN"
          /\ \A h \in 1..Len(rtSrc) : rtSrc[h].k \notin {"CLOSE", "NL"}
          /\ rtSrc[i].k = "TEXT"
          /\ GetSrc(rtAl, i) # {}
    /\ \A j \in 1..Len(rtTgt) : rtTgt[j].k = "TEXT"

C28_WellNestedNeverRaises ==
    LET depth(i) == Cardinality({h \in 1..i : rtSrc[h].k = "OPEN"})
                      - Cardinality({h \in 1..i : rtSrc[h].k = "CLOSE"})
        nested == /\ \A i \in 1..Len(rtSrc) : rtSrc[i].k = "NL" => depth(i) = 0
                  /\ \A i \in 1..Len(rtSrc) : rtSrc[i].k = "CLOSE" => depth(i) >= 0
                  /\ depth(Len(rtSrc)) = 0
        \* the target holds the tags put in and the segments it had: the
        \* newlines are those it had at the call
        newlines(segs) == Cardinality({i \in 1..Len(segs) : segs[i].k = "NL"})
    IN  (rtErr # "none" /\ nested /\ newlines(rtSrc) = newlines(rtTgt)) => rtErr = ""

(***************************************************************************)
(* Specification of reinsert_segments: the pass is called once on an       *)
(* AlignedSegments as the earlier passes leave it.  The target holds its   *)
(* own segments and possibly one source whitespace or paired tag that an   *)
(* earlier pass put there, aligned to itself; tag segments of the source   *)
(* other than paired tags are put into the target by this pass only.       *)
(***************************************************************************)
RsSegs ==
    {TagSegment(<<"<", "x", "/", ">">>), PairedTagSegment(<<"<", "g", ">">>),
     WhitespaceSegment(<<"\t">>), WhitespaceSegment(<<" ">>), TextSegment(<<"x">>)}

RsSources ==
    {[i \in 1..Len(q) |-> Obj(<<"S", i>>, q[i])] :
        q \in UNION {[1..n -> RsSegs] : n \in 0..MaxSrcLen}}

RsTargets ==
    {[j \in 1..n |-> Obj(<<"T", j>>, TextSegment(<<"x">>))] : n \in 0..MaxTgtLen}

InitSegments ==
    /\ rsSrc \in RsSources
    /\ \E own \in RsTargets :
       \E pairs \in SUBSET ({rsSrc[i].id : i \in 1..Len(rsSrc)} \X {own[j].id : j \in 1..Len(own)}) :
          /\ Cardinality(pairs) <= MaxAligned
          /\ \/ /\ rsTgt = own
                /\ rsAl = AddAll(EmptyAlignment, {<<p[1], p[1], p[2]>> : p \in pairs})
             \/ \E i \in 1..Len(rsSrc), at \in 1..(Len(own) + 1) :
                   /\ rsSrc[i].k \in {"WS", "PTAG"}
                   /\ \A p \in pairs : p[1] # rsSrc[i].id
                   /\ rsTgt = InsertAt(own, at, rsSrc[i])
                   /\ rsAl = AddAll(EmptyAlignment,
                                {<<p[1], p[1], p[2]>> : p \in pairs}
                                   \cup {<<rsSrc[i].id, rsSrc[i].id, rsSrc[i].id>>})
    /\ rsErr = "none"
    /\ LexIdle
    /\ AlIdle
    /\ CmpIdle
    /\ AsIdle
    /\ RtIdle
    /\ IvIdle
    /\ TlIdle
    /\ AgIdle
    /\ TvIdle
    /\ PlIdle
    /\ SnIdle
    /\ BrIdle

CallReinsertSegments ==
    /\ rsErr = "none"
    /\ rsErr' = ReinsertSegments(rsSrc, rsTgt, rsAl).err
    /\ rsTgt' = ReinsertSegments(rsSrc, rsTgt, rsAl).tgt
    /\ rsAl' = ReinsertSegments(rsSrc, rsTgt, rsAl).alignment
    /\ UNCHANGED <<rsSrc, lexVars, alVars, cmpVars, asVars, rtVars, ivVars, tlVars, agVars, tvVars, plVars, snVars, brVars>>

NextSegments == CallReinsertSegments

SpecSegments == InitSegments /\ [][NextSegments]_vars

\* C3: when reinsert_segments returns, every placeholder tag segment of the
\* source that was unaligned when the pass started occurs in the target
\* exactly once and is aligned to itself and to nothing else; a placeholder
\* tag that was aligned is not inserted; and the segments the target held
\* before are all still there, in their order (nothing is lost).
C3_TagsReinsertedExactlyOnce ==
    [][(rsErr = "none" /\ rsErr' = "") =>
         /\ \A i \in 1..Len(rsSrc) :
               rsSrc[i].k = "TAG" =>
                  LET id == rsSrc[i].id
                  IN  IF AlGet(rsAl, id) = {}
                      THEN /\ Cardinality({j \in 1..Len(rsTgt') : rsTgt'[j].id = id}) = 1
                           /\ AlGet(rsAl', id) = {id}
                      ELSE /\ \A j \in 1..Len(rsTgt') : rsTgt'[j].id # id
                           /\ AlGet(rsAl', id) = AlGet(rsAl, id)
         /\ SelectSeq(rsTgt', LAMBDA o : \E j \in 1..Len(rsTgt) : rsTgt[j].id = o.id) = rsTgt
      ]_vars

\* a pass has returned after putting two placeholder tags of the source into
\* a target that held a segment aligned to the source
C3_Witness ==
    /\ rsErr = ""
    /\ \E p \in rsAl.pairs : p[2][1] = "T"
    /\ \E i, j \in 1..Len(rsTgt) :
          i < j /\ rsTgt[i].k = "TAG" /\ rsTgt[j].k = "TAG"
          /\ rsTgt[i].id[1] = "S" /\ rsTgt[j].id[1] = "S"
          /\ \E m \in 1..Len(rsTgt) : i < m /\ m < j /\ rsTgt[m].id[1] = "T"

\* C19: reinsert_segments never inserts a PAIRED_TAG segment: a paired tag of
\* the source that is unaligned when the pass starts is not in the target
\* when the pass ends, and is still unaligned.
C19_PairedTagsNeverReinserted ==
    [][(rsErr = "none" /\ rsErr' # "none") =>
         \A i \in 1..Len(rsSrc) :
            (rsSrc[i].k = "PTAG" /\ AlGet(rsAl, rsSrc[i].id) = {}) =>
               /\ \A j \in 1..Len(rsTgt') : rsTgt'[j].id # rsSrc[i].id
               /\ AlGet(rsAl', rsSrc[i].id) = {}
      ]_vars

\* C12 as stated: after reinsert_segments, every source segment the pass
\* inserted, at source index i, ends up at a target index j with
\* rightmost_old[i] <= j <= leftmost_old[i], the two vectors being those of
\* the alignment before the pass (read here for the segments that have a
\* non-crossing position, rightmost_old[i] < leftmost_old[i]).
C12_FinalIndexWithinOldBounds ==
    [][(rsErr = "none" /\ rsErr' = "") =>
         LET r == RightmostAlignmentBySrc(rsSrc, rsTgt, rsAl).vec
             l == LeftmostAlignmentBySrc(rsSrc, rsTgt, rsAl).vec
         IN  \A i \in 1..Len(rsSrc) :
                (ToBeReinserted(rsAl, rsSrc[i]) /\ r[i] < l[i]) =>
                   LET j == IndexOf(rsTgt', rsSrc[i].id) - 1
                   IN  r[i] <= j /\ j <= l[i]
      ]_vars

\* C12, amended: for every source segment the pass inserted, at source
\* index i, with rightmost_old[i] < leftmost_old[i]: its final target index
\* j, less the number k of segments the pass inserted before it, lies in
\* rightmost_old[i] < j - k <= leftmost_old[i]; and in the final target it
\* crosses no pair the alignment held before the pass (the targets of
\* earlier sources are left of it, those of later sources right of it).
C12_NonCrossingWherePossible ==
    [][(rsErr = "none" /\ rsErr' = "") =>
         LET r == RightmostAlignmentBySrc(rsSrc, rsTgt, rsAl).vec
             l == LeftmostAlignmentBySrc(rsSrc, rsTgt, rsAl).vec
         IN  \A i \in 1..Len(rsSrc) :
                (ToBeReinserted(rsAl, rsSrc[i]) /\ r[i] < l[i]) =>
                   LET j == IndexOf(rsTgt', rsSrc[i].id) - 1
                       k == Cardinality({h \in 1..(i - 1) : ToBeReinserted(rsAl, rsSrc[h])})
                   IN  /\ r[i] < j - k /\ j - k <= l[i]
                       /\ \A p \in rsAl.pairs :
                             LET a == IndexOf(rsSrc, p[1])
                                 b == IndexOf(rsTgt', p[2]) - 1
                             IN  (a < i => b < j) /\ (a > i => b > j)
      ]_vars

\* a pass has returned after inserting two source segments, next to each
\* other, in front of a target segment aligned to a later source segment
C12_Witness ==
    /\ rsErr = ""
    /\ \E i \in 1..Len(rsTgt), m \in 1..Len(rsTgt), h \in 1..Len(rsSrc) :
          /\ i + 1 < m
          /\ rsTgt[i].id[1] = "S" /\ rsTgt[i + 1].id[1] = "S"
          /\ IndexOf(rsSrc, rsTgt[i].id) < IndexOf(rsSrc, rsTgt[i + 1].id)
          /\ IndexOf(rsSrc, rsTgt[i + 1].id) < h
          /\ rsTgt[m].id[1] = "T"
          /\ <<rsSrc[h].id, rsTgt[m].id>> \in rsAl.pairs
          /\ rsTgt[i].k = "TAG" /\ rsTgt[i + 1].k = "WS"

\* C20: with rightmost and leftmost the vectors of
\* rightmost_alignment_by_src and leftmost_alignment_by_src, rightmost[i] is
\* the largest target index of a pair whose source index is at most i (-1
\* if there is none), leftmost[i] the smallest target index of a pair whose
\* source index is at least i (len(tgt) if there is none), and for every
\* unaligned source position i and every target position j with
\* rightmost[i] < j < leftmost[i], no pair (a, b) has a < i and b > j, and
\* none has a > i and b < j.
C20_BetweenVectorsNonCrossing ==
    LET rightmost == RightmostAlignmentBySrc(rsSrc, rsTgt, rsAl)
        leftmost  == LeftmostAlignmentBySrc(rsSrc, rsTgt, rsAl)
        pairs     == {<<a, b>> \in (1..Len(rsSrc)) \X (0..(Len(rsTgt) - 1)) :
                         <<rsSrc[a].id, rsTgt[b + 1].id>> \in rsAl.pairs}
    IN  (rightmost.err = "" /\ leftmost.err = "") =>
           \A i \in 1..Len(rsSrc) :
              /\ rightmost.vec[i] = Max({-1} \cup {p[2] : p \in {q \in pairs : q[1] <= i}})
              /\ leftmost.vec[i] = Min({Len(rsTgt)} \cup {p[2] : p \in {q \in pairs : q[1] >= i}})
              /\ AlGet(rsAl, rsSrc[i].id) = {} =>
                    \A j \in 0..Len(rsTgt) :
                       (rightmost.vec[i] < j /\ j < leftmost.vec[i]) =>
                          \A p \in pairs : /\ ~(p[1] < i /\ p[2] > j)
                                           /\ ~(p[1] > i /\ p[2] < j)

\* an unaligned source position with aligned source positions on both sides
\* and a target position strictly between its two vector entries
C20_Witness ==
    \E i \in 1..Len(rsSrc) :
       /\ AlGet(rsAl, rsSrc[i].id) = {}
       /\ \E a \in 1..(i - 1) : AlGet(rsAl, rsSrc[a].id) # {}
       /\ \E a \in (i + 1)..Len(rsSrc) : AlGet(rsAl, rsSrc[a].id) # {}
       /\ \E j \in 0..Len(rsTgt) :
             /\ RightmostAlignmentBySrc(rsSrc, rsTgt, rsAl).vec[i] < j
             /\ j < LeftmostAlignmentBySrc(rsSrc, rsTgt, rsAl).vec[i]

(***************************************************************************)
(* Specification SpecOps: the operations of AlignedSegments called, in any *)
(* order, on an object whose alignment pairs name its own segments         *)
(***************************************************************************)
MaxIvLen == 2
MaxIvPairs == 2
MaxIvTotal == 3
MaxIvCalls == 2

IvPool(origin) ==
    {Obj(<<origin, 1>>, TextSegment(<<"x">>)), Obj(<<origin, 2>>, WhitespaceSegment(<<" ">>)),
     Obj(<<origin, 3>>, WhitespaceSegment(<<"\n">>))}

\* the lists of at most MaxIvLen distinct segments of a pool
IvLists(origin) ==
    {q \in UNION {[1..n -> IvPool(origin)] : n \in 0..MaxIvLen} :
        \A i, j \in 1..Len(q) : i # j => q[i] # q[j]}

IvIds(segs) == {segs[i].id : i \in 1..Len(segs)}

\* the alignments of at most MaxIvPairs pairs between two lists
IvAlignments(src, tgt) ==
    {AddAll(EmptyAlignment, {<<p[1], p[1], p[2]>> : p \in pairs}) :
        pairs \in {ps \in SUBSET (IvIds(src) \X IvIds(tgt)) : Cardinality(ps) <= MaxIvPairs}}

\* the objects handed to + and compose as other: the source is the target
\* of obj (the same segments, or equal segments of another lexer run, or
\* one segment more), the target holds at most one segment
IvOthers(obj) ==
    UNION {{AlignedSegments(mid, tgt, alignment) : alignment \in IvAlignments(mid, tgt)} :
              mid \in {obj.tgt,
                       [i \in 1..Len(obj.tgt) |-> [obj.tgt[i] EXCEPT !.id = <<"M", i>>]],
                       Append(obj.tgt, Obj(<<"M", 0>>, TextSegment(<<"x">>)))},
              tgt \in {<<>>, <<Obj(<<"U", 1>>, TextSegment(<<"x">>))>>}}

InitOps ==
    /\ \E src \in IvLists("S"), tgt \in IvLists("T") :
          \E alignment \in IvAlignments(src, tgt) :
             ivObj = AlignedSegments(src, tgt, alignment)
    /\ ivPrev = AlignedSegments(<<>>, <<>>, EmptyAlignment)
    /\ ivErr = ""
    /\ ivCalls = 0
    /\ ivOp = "none"
    /\ ivBefore = NoResult
    /\ LexIdle
    /\ AlIdle
    /\ CmpIdle
    /\ AsIdle
    /\ RtIdle
    /\ RsIdle
    /\ TlIdle
    /\ AgIdle
    /\ TvIdle
    /\ PlIdle
    /\ SnIdle
    /\ BrIdle

IvReady == ivErr = "" /\ ivCalls < MaxIvCalls

IvRest == UNCHANGED <<lexVars, alVars, cmpVars, asVars, rtVars, rsVars, tlVars, agVars, tvVars, plVars, snVars, brVars>>

OpInsertSegment ==
    /\ IvReady
    /\ Len(ivObj.tgt) < MaxIvTotal
    /\ \E index \in -1..(Len(ivObj.tgt) + 1),
          seg \in {Obj(<<"N", 1>>, TextSegment(<<"x">>))}
                     \cup {ivObj.src[i] : i \in 1..Len(ivObj.src)} :
          ivObj' = AsInsertSegment(ivObj, index, seg)
    /\ ivCalls' = ivCalls + 1
    /\ ivOp' = "insert_segment"
    /\ ivBefore' = ivObj
    /\ UNCHANGED <<ivPrev, ivErr>>
    /\ IvRest

OpRemoveSegment ==
    /\ IvReady
    /\ \E index \in -1..Len(ivObj.tgt) :
          /\ ivObj' = AsRemoveSegment(ivObj, index).obj
          /\ ivErr' = AsRemoveSegment(ivObj, index).err
    /\ ivCalls' = ivCalls + 1
    /\ ivOp' = "remove_segment"
    /\ ivBefore' = ivObj
    /\ UNCHANGED ivPrev
    /\ IvRest

OpConcat ==
    /\ IvReady
    /\ \E other \in IvOthers(ivObj) :
          /\ Len(ivObj.src) + Len(other.src) <= MaxIvTotal
          /\ Len(ivObj.tgt) + Len(other.tgt) <= MaxIvTotal
          /\ ivObj' = AsConcat(ivObj, other).res
          /\ ivPrev' = AsConcat(ivObj, other).self
    /\ ivCalls' = ivCalls + 1
    /\ ivOp' = "__add__"
    /\ ivBefore' = ivObj
    /\ UNCHANGED ivErr
    /\ IvRest

OpSwapSides ==
    /\ IvReady
    /\ ivObj' = SwapSides(ivObj)
    /\ ivCalls' = ivCalls + 1
    /\ ivOp' = "swap_sides"
    /\ ivBefore' = ivObj
    /\ UNCHANGED <<ivPrev, ivErr>>
    /\ IvRest

OpCompose ==
    /\ IvReady
    /\ \E other \in IvOthers(ivObj) :
          /\ ivErr' = AsCompose(ivObj, other).err
          /\ ivObj' = IF AsCompose(ivObj, other).err = ""
                      THEN AsCompose(ivObj, other).res ELSE ivObj
    /\ ivCalls' = ivCalls + 1
    /\ ivOp' = "compose"
    /\ ivBefore' = ivObj
    /\ UNCHANGED ivPrev
    /\ IvRest

OpRecoverAlignment ==
    /\ IvReady
    /\ ivErr' = RecoverAlignment(ivObj.src, ivObj.tgt, ivObj.alignment).err
    /\ ivObj' = [ivObj EXCEPT !.alignment =
                     RecoverAlignment(ivObj.src, ivObj.tgt, ivObj.alignment).alignment]
    /\ ivCalls' = ivCalls + 1
    /\ ivOp' = "recover_alignment"
    /\ ivBefore' = ivObj
    /\ UNCHANGED ivPrev
    /\ IvRest

OpRecoverNewlineAlignment ==
    /\ IvReady
    /\ ivErr' = RecoverNewlineAlignment(ivObj.src, ivObj.tgt, ivObj.alignment).err
    /\ ivObj' = [ivObj EXCEPT !.alignment =
                     RecoverNewlineAlignment(ivObj.src, ivObj.tgt, ivObj.alignment).alignment]
    /\ ivCalls' = ivCalls + 1
    /\ ivOp' = "recover_newline_alignment"
    /\ ivBefore' = ivObj
    /\ UNCHANGED ivPrev
    /\ IvRest

OpInferWhitespaceAlignment ==
    /\ IvReady
    /\ ivErr' = InferWhitespaceAlignment(ivObj.src, ivObj.tgt, ivObj.alignment).err
    /\ ivObj' = [ivObj EXCEPT !.alignment =
                     InferWhitespaceAlignment(ivObj.src, ivObj.tgt, ivObj.alignment).alignment]
    /\ ivCalls' = ivCalls + 1
    /\ ivOp' = "infer_whitespace_alignment"
    /\ ivBefore' = ivObj
    /\ UNCHANGED ivPrev
    /\ IvRest

NextOps ==
    \/ OpInsertSegment
    \/ OpRemoveSegment
    \/ OpConcat
    \/ OpSwapSides
    \/ OpCompose
    \/ OpRecoverAlignment
    \/ OpRecoverNewlineAlignment
    \/ OpInferWhitespaceAlignment

SpecOps == InitOps /\ [][NextOps]_vars

\* C11: in every reachable state of an AlignedSegments object, every
\* alignment pair names a source segment present in src and a target segment
\* present in tgt; insert_segment, remove_segment, +, swap_sides, compose,
\* recover_alignment, recover_newline_alignment and
\* infer_whitespace_alignment all keep it so.
C11_PairsNameOwnSegments ==
    \A p \in ivObj.alignment.pairs :
        /\ \E i \in 1..Len(ivObj.src) : ivObj.src[i].id = p[1]
        /\ \E j \in 1..Len(ivObj.tgt) : ivObj.tgt[j].id = p[2]

\* C21: a call of infer_whitespace_alignment removes and changes no pair;
\* every pair it adds joins a source whitespace that no pair named before
\* the call to a target whitespace that no pair named before the call; no
\* added pair crosses a pair that existed before or another added pair; and
\* no target segment is the target of two added pairs.  (Stated for texts
\* that hold each segment object once, so that a pair names one source
\* position and one target position.)
C21_InferredPairsFreeAndNonCrossing ==
    [][(/\ OpInferWhitespaceAlignment
        /\ \A i, j \in 1..Len(ivObj.src) : ivObj.src[i].id = ivObj.src[j].id => i = j
        /\ \A i, j \in 1..Len(ivObj.tgt) : ivObj.tgt[i].id = ivObj.tgt[j].id => i = j) =>
         LET old   == ivObj.alignment.pairs
             added == ivObj'.alignment.pairs \ old
             srcAt(id) == {i \in 1..Len(ivObj.src) : ivObj.src[i].id = id}
             tgtAt(id) == {j \in 1..Len(ivObj.tgt) : ivObj.tgt[j].id = id}
             cross(p, q) == \E a \in srcAt(p[1]), b \in tgtAt(p[2]),
                               c \in srcAt(q[1]), d \in tgtAt(q[2]) : a < c /\ b > d
         IN  /\ old \subseteq ivObj'.alignment.pairs
             /\ \A p \in added :
                   /\ \E i \in srcAt(p[1]) : ivObj.src[i].k = "WS"
                   /\ \E j \in tgtAt(p[2]) : ivObj.tgt[j].k = "WS"
                   /\ \A q \in old : q[1] # p[1] /\ q[2] # p[2]
                   /\ \A q \in ivObj'.alignment.pairs : ~cross(p, q) /\ ~cross(q, p)
                   /\ \A q \in added : q[2] = p[2] => q = p
      ]_vars

\* infer_whitespace_alignment has added a pair to an alignment that held a
\* pair already
C21_Witness ==
    /\ ivOp = "infer_whitespace_alignment"
    /\ ivErr = ""
    /\ ivBefore.alignment.pairs # {}
    /\ ivObj.alignment.pairs \ ivBefore.alignment.pairs # {}

(***************************************************************************)
(* Specification SpecTranslate: the control flow of one                    *)
(* MarkupTranslator.translate call.  The source string is data; what the   *)
(* tokenizer, the translator and the aligner answer, and with it the       *)
(* outcome of the steps that depend on their answers, is chosen freely     *)
(* among the outcomes the step can have.                                   *)
(***************************************************************************)
MaxTlLen == 2

\* the source strings: every string of at most MaxTlLen characters, and two
\* closing tags that TagSegment and PairedTagSegment reject
TlSources ==
    StringsUpTo(MaxTlLen) \cup {<<"<", "/", "g", "x", ">">>, <<"<", "/", "g", " ", ">">>}

InitTranslate ==
    /\ tlSrc \in TlSources
    /\ tlRun = <<>>
    /\ tlErr = ""
    /\ tlTranslator = 0
    /\ tlAligner = 0
    /\ LexIdle
    /\ AlIdle
    /\ CmpIdle
    /\ AsIdle
    /\ RtIdle
    /\ RsIdle
    /\ IvIdle
    /\ AgIdle
    /\ TvIdle
    /\ PlIdle
    /\ SnIdle
    /\ BrIdle

\* a translate call in which every step runs whatever the steps before it
\* raised
TlRunningAlways == TRUE

\* the call is still running: no statement has raised (translate has no
\* try and no loop, an exception leaves it at once)
TlRunning == tlErr = ""

\* statement `step` is reached after `before` steps, and ends with one of
\* the outcomes `errs` ("" for a normal return)
TlStep(before, step, errs) ==
    /\ TlRunning
    /\ Len(tlRun) = before
    /\ tlRun' = Append(tlRun, step)
    /\ tlErr' \in errs
    /\ UNCHANGED <<tlSrc, lexVars, alVars, cmpVars, asVars, rtVars, rsVars, ivVars, agVars, tvVars, plVars, snVars, brVars>>

\* lines 119-122: from_string raises on a malformed tag, the tokenizer may
\* raise
TlSegmentAndTokenize ==
    /\ TlStep(0, "segment_and_tokenize",
              IF FromString(tlSrc).ok THEN {"", "TokenizerError"} ELSE {FromString(tlSrc).err})
    /\ UNCHANGED <<tlTranslator, tlAligner>>

\* lines 124-125: translator_view raises nothing
TlTranslatorView ==
    /\ TlStep(1, "translator_view", {""})
    /\ UNCHANGED <<tlTranslator, tlAligner>>

\* line 129: the translator is invoked, and returns or raises
TlTranslate ==
    /\ TlStep(2, "translator", {"", "TranslatorError"})
    /\ tlTranslator' = tlTranslator + 1
    /\ UNCHANGED tlAligner

\* lines 132-148: from_sentences and the tokenizer on the translator's
\* sentences, aligner_view, recover_alignment, swap_sides
TlRecoverAlignment ==
    /\ TlStep(3, "recover_alignment",
              {"", "ValueError", "TokenizerError", "AssertionError", "StopIteration"})
    /\ UNCHANGED <<tlTranslator, tlAligner>>

\* line 152, align_segments: the assertion on the two batches fails before
\* the aligner is invoked; otherwise the aligner is invoked, and raises, or
\* returns an index outside a sentence, or returns well
TlAlignSegments ==
    \/ /\ TlStep(4, "align_segments", {"AssertionError"})
       /\ UNCHANGED <<tlTranslator, tlAligner>>
    \/ /\ TlStep(4, "align_segments", {"", "AlignerError", "IndexError"})
       /\ tlAligner' = tlAligner + 1
       /\ UNCHANGED tlTranslator

\* line 155: recover_newline_alignment asserts equal newline counts
TlRecoverNewlineAlignment ==
    /\ TlStep(5, "recover_newline_alignment", {"", "AssertionError"})
    /\ UNCHANGED <<tlTranslator, tlAligner>>

\* lines 157-161: each compose is between views of one and the same
\* SegmentedText, the assertion on the strings holds
TlCompose ==
    /\ TlStep(6, "compose", {""})
    /\ UNCHANGED <<tlTranslator, tlAligner>>

\* line 164: every aligned target segment is in the target, nothing raises
TlInferWhitespaceAlignment ==
    /\ TlStep(7, "infer_whitespace_alignment", {""})
    /\ UNCHANGED <<tlTranslator, tlAligner>>

\* lines 166-171: the compose with the source view, then the argument of
\* logger.debug: AlignedSegments.debug_print joins the None that
\* SegmentedText.debug_print returns, a TypeError for every input
TlDebugPrint ==
    /\ TlStep(8, "debug_print", {"TypeError"})
    /\ UNCHANGED <<tlTranslator, tlAligner>>

NextTranslate ==
    \/ TlSegmentAndTokenize
    \/ TlTranslatorView
    \/ TlTranslate
    \/ TlRecoverAlignment
    \/ TlAlignSegments
    \/ TlRecoverNewlineAlignment
    \/ TlCompose
    \/ TlInferWhitespaceAlignment
    \/ TlDebugPrint

SpecTranslate == InitTranslate /\ [][NextTranslate]_vars

\* C14 as stated: the phases of a translate call run in the fixed order
\* (segment and tokenize, translator view, translator call, alignment
\* recovery, aligner call, newline recovery, composition, whitespace
\* inference, reinsert_tags, reinsert_whitespace, reinsert_segments); the
\* translator is invoked exactly once in a call, the aligner at most once and
\* only after the translator returned; once a phase has raised, no later
\* phase runs and nothing is retried.
C14_FailStopTranslatorOnce ==
    [][/\ tlErr = ""
       /\ LET order == <<"segment_and_tokenize", "translator_view", "translator",
                         "recover_alignment", "align_segments",
                         "recover_newline_alignment", "compose",
                         "infer_whitespace_alignment", "reinsert_tags",
                         "reinsert_whitespace", "reinsert_segments">>
              run == SelectSeq(tlRun', LAMBDA ph : \E n \in 1..Len(order) : order[n] = ph)
          IN  /\ Len(run) <= Len(order) /\ run = SubSeq(order, 1, Len(run))
              /\ tlTranslator' <= 1
              /\ tlErr' # "" => tlTranslator' = 1
              /\ tlAligner' <= 1
              /\ tlAligner' = 1 => (tlTranslator' = 1 /\ Len(run) >= 4)
      ]_vars

\* C14, amended: the same, with the translator invoked at most once in a
\* call: exactly once in a call that got as far as the translator phase,
\* never in a call that segmentation or tokenization ended.
C14_FailStopTranslatorAtMostOnce ==
    [][/\ tlErr = ""
       /\ LET order == <<"segment_and_tokenize", "translator_view", "translator",
                         "recover_alignment", "align_segments",
                         "recover_newline_alignment", "compose",
                         "infer_whitespace_alignment", "reinsert_tags",
                         "reinsert_whitespace", "reinsert_segments">>
              run == SelectSeq(tlRun', LAMBDA ph : \E n \in 1..Len(order) : order[n] = ph)
          IN  /\ Len(run) <= Len(order) /\ run = SubSeq(order, 1, Len(run))
              /\ tlTranslator' = (IF Len(run) >= 3 THEN 1 ELSE 0)
              /\ tlAligner' <= 1
              /\ tlAligner' = 1 => (tlTranslator' = 1 /\ Len(run) >= 4)
      ]_vars

\* a call ended by the assertion of recover_newline_alignment: translator
\* and aligner were invoked once each and no later phase was entered
C14_Witness ==
    /\ tlErr = "AssertionError"
    /\ tlRun = <<"segment_and_tokenize", "translator_view", "translator",
                 "recover_alignment", "align_segments", "recover_newline_alignment">>
    /\ tlTranslator = 1
    /\ tlAligner = 1

(***************************************************************************)
(* Specification SpecAligner: lines 129-152 of translate, from the         *)
(* translator's answer to the return of align_segments, for every answer   *)
(* of the translator of at most MaxSents sentences of at most MaxSentLen   *)
(* characters on either side, and every answer of the aligner with at most *)
(* one index pair per sentence.  The tokenizer returns each word whole.    *)
(***************************************************************************)
MaxSents == 2
MaxSentLen == 1

AgStrings ==
    {s \in StringsUpTo(MaxSentLen) : \A i \in 1..Len(s) : s[i] \in {"x", " "}}

AgSentenceLists == UNION {[1..n -> AgStrings] : n \in 0..MaxSents}

\* what the aligner may answer for n sentence pairs: a list of at most n
\* lists, each empty or holding one index pair
AgAnswers(n) ==
    UNION {[1..m -> {<<>>} \cup {<<<<i, j>>>> : i \in -MaxSentLen..MaxSentLen,
                                              j \in -MaxSentLen..MaxSentLen}] :
              m \in 0..n}

InitAligner ==
    /\ \E s \in AgStrings :
          agView = [i \in 1..Len(FromString(s).segs) |->
                       Obj(<<"V", i>>, IF FromString(s).segs[i].k = "WS"
                                       THEN WhitespaceSegment(<<" ">>)
                                       ELSE FromString(s).segs[i])]
    /\ agSrcSents \in AgSentenceLists
    /\ agTgtSents \in AgSentenceLists
    /\ agAnswer = <<>>
    /\ agOut = NoCall
    /\ LexIdle
    /\ AlIdle
    /\ CmpIdle
    /\ AsIdle
    /\ RtIdle
    /\ RsIdle
    /\ IvIdle
    /\ TlIdle
    /\ TvIdle
    /\ PlIdle
    /\ SnIdle
    /\ BrIdle

\* lines 129-152: from_sentences on both answers of the translator,
\* recover_alignment against the text it was handed, align_segments on the
\* two aligner views
TranslatorToAligner ==
    /\ agOut = NoCall
    /\ \E s \in {FromSentences(agSrcSents, "S")}, t \in {FromSentences(agTgtSents, "T")} :
       \E rec \in {RecoverAlignment(agView, s.segs, EmptyAlignment)} :
          LET early == IF s.err # "" THEN s.err
                       ELSE IF rec.err # "" THEN rec.err
                       ELSE t.err
          IN  IF early # ""
              THEN /\ agOut' = [err |-> early, invoked |-> FALSE,
                                alignment |-> EmptyAlignment, src |-> <<>>, tgt |-> <<>>]
                   /\ agAnswer' = <<>>
              ELSE \E srcView \in {AlignerView(s.segs)}, tgtView \in {AlignerView(t.segs)} :
                   \E answer \in AgAnswers(Len(SplitSentences(srcView))) :
                   \E r \in {AlignSegments(srcView, tgtView, answer)} :
                      /\ agOut' = [err |-> r.err, invoked |-> r.invoked,
                                   alignment |-> r.alignment,
                                   src |-> srcView, tgt |-> tgtView]
                      /\ agAnswer' = IF r.invoked THEN answer ELSE <<>>
    /\ UNCHANGED <<agView, agSrcSents, agTgtSents, lexVars, alVars, cmpVars, asVars, rtVars,
                   rsVars, ivVars, tlVars, tvVars, plVars, snVars, brVars>>

NextAligner == TranslatorToAligner

SpecAligner == InitAligner /\ [][NextAligner]_vars

\* C15: if the aligner returns, for some sentence pair, an index pair (i, j)
\* with i outside 0..len(source tokens of the sentence)-1 or j outside
\* 0..len(target tokens of the sentence)-1, negative indices included,
\* align_segments fails with an error (and so returns no alignment).
C15_OutOfRangeIndexRejected ==
    (agOut # NoCall /\ agOut.invoked) =>
        LET srcS == SplitSentences(agOut.src)
            tgtS == SplitSentences(agOut.tgt)
        IN  \A k \in 1..Min({Len(srcS), Len(agAnswer)}) : \A h \in 1..Len(agAnswer[k]) :
               (\/ agAnswer[k][h][1] \notin 0..(Len(srcS[k]) - 1)
                \/ agAnswer[k][h][2] \notin 0..(Len(tgtS[k]) - 1))
               => agOut.err # ""

\* C16: whenever the translator returns src_sents and tgt_sents of different
\* lengths, one of them empty included, the call fails with an assertion
\* error.
C16_UnequalSentenceListsAsserted ==
    (agOut # NoCall /\ Len(agSrcSents) # Len(agTgtSents)) => agOut.err = "AssertionError"

(***************************************************************************)
(* Specification SpecView: translator_view on the text from_string returns *)
(* for every string up to MaxStrLen that it accepts                        *)
(***************************************************************************)
InitView ==
    /\ \E s \in StringsUpTo(MaxStrLen) :
          /\ FromString(s).ok
          /\ tvText = [i \in 1..Len(FromString(s).segs) |->
                          Obj(<<"S", i>>, FromString(s).segs[i])]
    /\ tvOut = NoResult
    /\ LexIdle
    /\ AlIdle
    /\ CmpIdle
    /\ AsIdle
    /\ RtIdle
    /\ RsIdle
    /\ IvIdle
    /\ TlIdle
    /\ AgIdle
    /\ PlIdle
    /\ SnIdle
    /\ BrIdle

CallTranslatorView ==
    /\ tvOut = NoResult
    /\ tvOut' = TranslatorView(tvText)
    /\ UNCHANGED <<tvText, lexVars, alVars, cmpVars, asVars, rtVars, rsVars, ivVars, tlVars,
                   agVars, plVars, snVars, brVars>>

NextView == CallTranslatorView

SpecView == InitView /\ [][NextView]_vars

\* C22: the view translator_view returns holds no TAG and no PAIRED_TAG
\* segment, and each of its WHITESPACE segments is " " or "\n"; every
\* segment of the text that is not a tag is aligned to exactly one segment
\* of the view, and these pairs keep the order of the segments; a tag of the
\* text has no pair, and the single space that stands for an x or lb tag is
\* the target of no pair.
C22_TranslatorViewShape ==
    tvOut # NoResult =>
       LET view  == tvOut.tgt
           at(id) == {j \in 1..Len(view) : view[j].id = id}
           isTag(i) == tvText[i].k \in {"TAG", "PTAG"}
           \* the position in the view of what stands for the i-th segment
           pos(i) == Cardinality({h \in 1..i :
                         ~isTag(h) \/ tvText[h].tag \in {<<"x">>, <<"l", "b">>}})
       IN  /\ \A j \in 1..Len(view) :
                /\ view[j].k \notin {"TAG", "PTAG"}
                /\ view[j].k = "WS" => view[j].s \in {<<" ">>, <<"\n">>}
           /\ \A i \in 1..Len(tvText) :
                IF isTag(i)
                THEN /\ AlGet(tvOut.alignment, tvText[i].id) = {}
                     /\ tvText[i].tag \in {<<"x">>, <<"l", "b">>} =>
                           /\ view[pos(i)].s = <<" ">>
                           /\ \A p \in tvOut.alignment.pairs : p[2] # view[pos(i)].id
                ELSE /\ Cardinality(AlGet(tvOut.alignment, tvText[i].id)) = 1
                     /\ \A t \in AlGet(tvOut.alignment, tvText[i].id) : at(t) = {pos(i)}
           /\ \A i, j \in 1..Len(tvText) :
                (i < j /\ ~isTag(i) /\ ~isTag(j)) =>
                   \A a \in AlGet(tvOut.alignment, tvText[i].id),
                      b \in AlGet(tvOut.alignment, tvText[j].id) :
                      \A x \in at(a), y \in at(b) : x < y

\* a view returned for a text with an x tag and a whitespace run that was
\* normalised
C22_Witness ==
    /\ tvOut # NoResult
    /\ \E i \in 1..Len(tvText) : tvText[i].k = "TAG" /\ tvText[i].tag = <<"x">>
    /\ \E i \in 1..Len(tvText) :
          /\ tvText[i].k = "WS" /\ tvText[i].s \notin {<<" ">>, <<"\n">>}
          /\ \A t \in AlGet(tvOut.alignment, tvText[i].id) : t[1] = "V"

(***************************************************************************)
(* Specification SpecRecover: recover_alignment called on AlignedSegments  *)
(* of a translator view (words, spaces, newlines) and of a text            *)
(* from_sentences made (words, spaces, newlines, sentence separators), of  *)
(* at most MaxRcLen segments each, with no pair or one pair at entry       *)
(***************************************************************************)
MaxRcLen == 3

InitRecover ==
    /\ \E ss \in UNION {[1..n -> {TextSegment(<<"x">>), TextSegment(<<"x", "x">>),
                                  WhitespaceSegment(<<" ">>), WhitespaceSegment(<<"\n">>)}] :
                           n \in 0..MaxRcLen},
          ts \in UNION {[1..n -> {TextSegment(<<"x">>), TextSegment(<<"x", "x">>),
                                  WhitespaceSegment(<<" ">>), WhitespaceSegment(<<"\n">>),
                                  SentenceSeparator}] : n \in 0..MaxRcLen} :
       \E pairs \in {{}} \cup {{<<<<"S", i>>, <<"T", j>>>>} : i \in 1..Len(ss), j \in 1..Len(ts)} :
          ivObj = AlignedSegments([i \in 1..Len(ss) |-> Obj(<<"S", i>>, ss[i])],
                                  [j \in 1..Len(ts) |-> Obj(<<"T", j>>, ts[j])],
                                  AddAll(EmptyAlignment, {<<p[1], p[1], p[2]>> : p \in pairs}))
    /\ ivPrev = AlignedSegments(<<>>, <<>>, EmptyAlignment)
    /\ ivErr = ""
    /\ ivCalls = 0
    /\ ivOp = "none"
    /\ ivBefore = NoResult
    /\ LexIdle
    /\ AlIdle
    /\ CmpIdle
    /\ AsIdle
    /\ RtIdle
    /\ RsIdle
    /\ TlIdle
    /\ AgIdle
    /\ TvIdle
    /\ PlIdle
    /\ SnIdle
    /\ BrIdle

NextRecover == OpRecoverAlignment

SpecRecover == InitRecover /\ [][NextRecover]_vars

\* C23: a recover_alignment call that succeeds leaves every source segment
\* that is not whitespace, or is "\n", aligned to exactly one target
\* segment; no two pairs cross; and every target segment that is neither
\* whitespace other than "\n" nor a sentence separator has as its string the
\* strings of the source segments aligned to it, joined in source order.
\* The call fails when the alignment holds a pair at entry, and when the
\* source and the target walked do not spell the same string (a source
\* segment that is no prefix of the rest of the target string, a source
\* that runs out first, source segments left over).
C23_RecoveredAlignment ==
    [][OpRecoverAlignment =>
         LET src == ivObj.src
             tgt == ivObj.tgt
             after == ivObj'.alignment
             walkedSrc(i) == src[i].k # "WS" \/ src[i].s = <<"\n">>
             walkedTgt(j) == tgt[j].k \notin {"WS", "SEP"} \/ tgt[j].s = <<"\n">>
             idx == {<<i, j>> \in (1..Len(src)) \X (1..Len(tgt)) :
                        <<src[i].id, tgt[j].id>> \in after.pairs}
             of(j) == SelectSeq([i \in 1..Len(src) |-> i], LAMBDA i : <<i, j>> \in idx)
         IN  /\ ivErr' = "" =>
                  /\ \A i \in 1..Len(src) :
                        walkedSrc(i) => Cardinality(AlGet(after, src[i].id)) = 1
                  /\ \A p, q \in idx : p[1] < q[1] => p[2] <= q[2]
                  /\ \A j \in 1..Len(tgt) :
                        walkedTgt(j) => Join([n \in 1..Len(of(j)) |-> src[of(j)[n]].s]) = tgt[j].s
             /\ ivObj.alignment.pairs # {} => ivErr' = "AssertionError"
             /\ Str(SelectSeq(src, LAMBDA o : o.k # "WS" \/ o.s = <<"\n">>))
                   # Str(SelectSeq(tgt, LAMBDA o : o.k \notin {"WS", "SEP"} \/ o.s = <<"\n">>))
                => ivErr' # ""
      ]_vars

\* recover_alignment has succeeded on a target word that two source words
\* spell together, with whitespace on both sides left out
C23_Witness ==
    /\ ivOp = "recover_alignment"
    /\ ivErr = ""
    /\ ivCalls = 1
    /\ \E j \in 1..Len(ivObj.tgt) :
          Cardinality({p \in ivObj.alignment.pairs : p[2] = ivObj.tgt[j].id}) = 2
    /\ \E i \in 1..Len(ivObj.src) : ivObj.src[i].k = "WS"

(***************************************************************************)
(* Specification SpecWhitespace: reinsert_whitespace is called once on an  *)
(* AlignedSegments of a source of at most MaxSrcLen words and whitespace,  *)
(* a target of at most MaxSrcLen words and single spaces, and at most      *)
(* MaxAligned pairs between them                                           *)
(***************************************************************************)
InitWhitespace ==
    /\ \E ss \in UNION {[1..n -> {WhitespaceSegment(<<"\t">>), WhitespaceSegment(<<" ">>),
                                  TextSegment(<<"x">>)}] : n \in 0..MaxSrcLen},
          ts \in UNION {[1..n -> {WhitespaceSegment(<<" ">>), TextSegment(<<"x">>)}] :
                           n \in 0..MaxSrcLen} :
       \E pairs \in SUBSET ({<<"S", i>> : i \in 1..Len(ss)} \X {<<"T", j>> : j \in 1..Len(ts)}) :
          /\ Cardinality(pairs) <= MaxAligned
          /\ rsSrc = [i \in 1..Len(ss) |-> Obj(<<"S", i>>, ss[i])]
          /\ rsTgt = [j \in 1..Len(ts) |-> Obj(<<"T", j>>, ts[j])]
          /\ rsAl = AddAll(EmptyAlignment, {<<p[1], p[1], p[2]>> : p \in pairs})
    /\ rsErr = "none"
    /\ LexIdle
    /\ AlIdle
    /\ CmpIdle
    /\ AsIdle
    /\ RtIdle
    /\ IvIdle
    /\ TlIdle
    /\ AgIdle
    /\ TvIdle
    /\ PlIdle
    /\ SnIdle
    /\ BrIdle

CallReinsertWhitespace ==
    /\ rsErr = "none"
    /\ rsErr' = ReinsertWhitespace(rsSrc, rsTgt, rsAl).err
    /\ rsTgt' = ReinsertWhitespace(rsSrc, rsTgt, rsAl).tgt
    /\ rsAl' = ReinsertWhitespace(rsSrc, rsTgt, rsAl).alignment
    /\ UNCHANGED <<rsSrc, lexVars, alVars, cmpVars, asVars, rtVars, ivVars, tlVars, agVars,
                   tvVars, plVars, snVars, brVars>>

NextWhitespace == CallReinsertWhitespace

SpecWhitespace == InitWhitespace /\ [][NextWhitespace]_vars

\* C24: reinsert_whitespace completes on every input in which a source
\* whitespace is aligned to exactly one target, a whitespace (two source
\* whitespaces aligned only to the same target included), and afterwards:
\* for each such source whitespace w with target w_t, the target holds w
\* where w_t was, the pair (w, w_t) is gone and the pair (w, w) is there; the
\* target has the length it had; every other target segment and every other
\* pair is as it was, so that source whitespace with no target or with
\* several is left untouched.
C24_SingletonWhitespaceRestored ==
    [][(/\ rsErr = "none"
        /\ rsErr' # "none"
        /\ \A i \in 1..Len(rsSrc) : \A t \in AlGet(rsAl, rsSrc[i].id) :
              (rsSrc[i].k = "WS" /\ AlGet(rsAl, rsSrc[i].id) = {t}) =>
                 \E j \in 1..Len(rsTgt) : rsTgt[j].id = t /\ rsTgt[j].k = "WS")
       => LET single == {i \in 1..Len(rsSrc) :
                            rsSrc[i].k = "WS" /\ Cardinality(AlGet(rsAl, rsSrc[i].id)) = 1}
              tgtOf(i) == CHOOSE t \in AlGet(rsAl, rsSrc[i].id) : TRUE
          IN  /\ rsErr' = ""
              /\ Len(rsTgt') = Len(rsTgt)
              /\ \A i \in single :
                    /\ rsTgt'[IndexOf(rsTgt, tgtOf(i))] = rsSrc[i]
                    /\ <<rsSrc[i].id, tgtOf(i)>> \notin rsAl'.pairs
                    /\ <<rsSrc[i].id, rsSrc[i].id>> \in rsAl'.pairs
              /\ \A j \in 1..Len(rsTgt) :
                    (\A i \in single : tgtOf(i) # rsTgt[j].id) => rsTgt'[j] = rsTgt[j]
              /\ {p \in rsAl'.pairs : \A i \in single : p[1] # rsSrc[i].id}
                    = {p \in rsAl.pairs : \A i \in single : p[1] # rsSrc[i].id}
      ]_vars

(***************************************************************************)
(* Specification SpecPipeline: one MarkupTranslator.translate call         *)
(* followed through its data, from the source string to the               *)
(* AlignedSegments of lines 166-168 and the statement after it, for every  *)
(* source of at most MaxPlLen characters, every answer of the translator   *)
(* of at most MaxSents sentences of at most MaxPlLen characters on either  *)
(* side, and every answer of the aligner with at most one index pair per   *)
(* sentence.  The tokenizer returns each word whole.                       *)
(***************************************************************************)
MaxPlLen == 3

PlStrings ==
    {s \in StringsUpTo(MaxPlLen) : \A i \in 1..Len(s) : s[i] \in {"x", " ", "\n"}}

\* the sentence lists the translator may return: at most MaxSents sentences
\* of at most MaxPlLen characters in all
PlSentenceLists ==
    {l \in UNION {[1..n -> PlStrings] : n \in 0..MaxSents} : Len(Join(l)) <= MaxPlLen}

\* what the aligner may answer for the sentence pairs of the two views: per
\* sentence no pair, or one pair of token indices of that sentence pair
PlAnswers(srcView, tgtView) ==
    LET srcS == SplitSentences(srcView)
        tgtS == SplitSentences(tgtView)
        n    == Min({Len(srcS), Len(tgtS)})
    IN  {a \in [1..n -> {<<>>} \cup {<<<<i, j>>>> : i \in 0..(MaxPlLen - 1),
                                                   j \in 0..(MaxPlLen - 1)}] :
            \A k \in 1..n : a[k] # <<>> =>
                /\ a[k][1][1] < Len(srcS[k])
                /\ a[k][1][2] < Len(tgtS[k])}

\* the alignment aligner_view returns with the view: every segment it kept,
\* aligned to itself
AlignerViewAlignment(segs) ==
    AddAll(EmptyAlignment,
           {<<AlignerView(segs)[i].id, AlignerView(segs)[i].id, AlignerView(segs)[i].id>> :
               i \in 1..Len(AlignerView(segs))})

InitPipeline ==
    /\ plSrc \in PlStrings
    /\ plStage = "start"
    /\ plErr = ""
    /\ plSrcSents = <<>>
    /\ plTgtSents = <<>>
    /\ plAnswer = <<>>
    /\ plView = NoResult
    /\ plSrcSide = NoResult
    /\ plTokens = NoResult
    /\ plTgtText = <<>>
    /\ plFinal = NoResult
    /\ LexIdle
    /\ AlIdle
    /\ CmpIdle
    /\ AsIdle
    /\ RtIdle
    /\ RsIdle
    /\ IvIdle
    /\ TlIdle
    /\ AgIdle
    /\ TvIdle
    /\ SnIdle
    /\ BrIdle

PlRest ==
    <<lexVars, alVars, cmpVars, asVars, rtVars, rsVars, ivVars, tlVars, agVars, tvVars, snVars,
      brVars>>

\* lines 119-141: from_string, translator_view, the translator's source
\* sentences through from_sentences, recover_alignment of the view against
\* them
PlSourceSide ==
    /\ plStage = "start"
    /\ plErr = ""
    /\ plStage' = "source_side"
    /\ \E sents \in PlSentenceLists :
       \E view \in {TranslatorView([i \in 1..Len(FromString(plSrc).segs) |->
                                       Obj(<<"D", i>>, FromString(plSrc).segs[i])])},
          s \in {FromSentences(sents, "S")} :
       \E rec \in {RecoverAlignment(view.tgt, s.segs, EmptyAlignment)} :
          /\ plSrcSents' = sents
          /\ plView' = view
          /\ plErr' = IF s.err # "" THEN s.err ELSE rec.err
          /\ plSrcSide' = IF s.err # "" THEN NoResult
                          ELSE AlignedSegments(view.tgt, s.segs, rec.alignment)
    /\ UNCHANGED <<plSrc, plTgtSents, plAnswer, plTokens, plTgtText, plFinal, PlRest>>

\* lines 143-152: the translator's target sentences through from_sentences,
\* the two aligner views, align_segments with the aligner's answer
PlTargetSide ==
    /\ plStage = "source_side"
    /\ plErr = ""
    /\ plStage' = "target_side"
    /\ \E sents \in PlSentenceLists :
       \E t \in {FromSentences(sents, "T")} :
          /\ plTgtSents' = sents
          /\ IF t.err # ""
             THEN /\ plErr' = t.err
                  /\ plTgtText' = <<>>
                  /\ plAnswer' = <<>>
                  /\ plTokens' = NoResult
             ELSE \E srcView \in {AlignerView(plSrcSide.tgt)}, tgtView \in {AlignerView(t.segs)} :
                  \E answer \in PlAnswers(srcView, tgtView) :
                  \E r \in {AlignSegments(srcView, tgtView, answer)} :
                     /\ plErr' = r.err
                     /\ plTgtText' = t.segs
                     /\ plAnswer' = IF r.invoked THEN answer ELSE <<>>
                     /\ plTokens' = AlignedSegments(srcView, tgtView, r.alignment)
    /\ UNCHANGED <<plSrc, plSrcSents, plView, plSrcSide, plFinal, PlRest>>

\* lines 155-168: recover_newline_alignment, the three composes from the
\* view handed to the translator to the translator's target sentences,
\* infer_whitespace_alignment, the compose with the source
PlCompose ==
    /\ plStage = "target_side"
    /\ plErr = ""
    /\ plStage' = "composed"
    /\ \E nl \in {RecoverNewlineAlignment(plTokens.src, plTokens.tgt, plTokens.alignment)} :
       \E c1 \in {AsCompose(plSrcSide,
                            AlignedSegments(plSrcSide.tgt, plTokens.src,
                                            AlignerViewAlignment(plSrcSide.tgt)))} :
       \E c2 \in {AsCompose(c1.res, [plTokens EXCEPT !.alignment = nl.alignment])} :
       \E c3 \in {AsCompose(c2.res,
                            SwapSides(AlignedSegments(plTgtText, plTokens.tgt,
                                                      AlignerViewAlignment(plTgtText))))} :
       \E iw \in {InferWhitespaceAlignment(c3.res.src, c3.res.tgt, c3.res.alignment)} :
       \E c4 \in {AsCompose(plView, [c3.res EXCEPT !.alignment = iw.alignment])} :
          LET err == IF nl.err # "" THEN nl.err
                     ELSE IF c1.err # "" THEN c1.err
                     ELSE IF c2.err # "" THEN c2.err
                     ELSE IF c3.err # "" THEN c3.err
                     ELSE IF iw.err # "" THEN iw.err
                     ELSE c4.err
          IN  /\ plErr' = err
              /\ plTokens' = IF nl.err # "" THEN plTokens
                             ELSE [plTokens EXCEPT !.alignment = nl.alignment]
              /\ plFinal' = IF err # "" THEN NoResult ELSE c4.res
    /\ UNCHANGED <<plSrc, plSrcSents, plTgtSents, plAnswer, plView, plSrcSide, plTgtText,
                   PlRest>>

\* line 171: the argument of logger.debug, AlignedSegments.debug_print,
\* joins the None that SegmentedText.debug_print returns: a TypeError, and
\* the call is over before reinsert_tags
PlDebugPrint ==
    /\ plStage = "composed"
    /\ plErr = ""
    /\ plStage' = "debug_print"
    /\ plErr' = "TypeError"
    /\ UNCHANGED <<plSrc, plSrcSents, plTgtSents, plAnswer, plView, plSrcSide, plTokens,
                   plTgtText, plFinal, PlRest>>

NextPipeline ==
    \/ PlSourceSide
    \/ PlTargetSide
    \/ PlCompose
    \/ PlDebugPrint

SpecPipeline == InitPipeline /\ [][NextPipeline]_vars

\* C25: in every translate run, in the AlignedSegments that the run builds
\* for the reinsertion passes (src_segments_to_tgt_sentences of lines 166-168),
\* each source whitespace segment whose alignment set is a singleton is
\* aligned to a target segment that is itself whitespace, whatever index
\* pairs the aligner returned, pairs that link a "\n" token to a word
\* included: the assertion of reinsert_whitespace cannot fail on it.
C25_SingletonWhitespaceTargets ==
    plFinal # NoResult =>
        /\ \A i \in 1..Len(plFinal.src) :
              (/\ plFinal.src[i].k = "WS"
               /\ Cardinality(AlGet(plFinal.alignment, plFinal.src[i].id)) = 1) =>
                 \A t \in AlGet(plFinal.alignment, plFinal.src[i].id) :
                    \E j \in 1..Len(plFinal.tgt) :
                       plFinal.tgt[j].id = t /\ plFinal.tgt[j].k = "WS"
        /\ ReinsertWhitespace(plFinal.src, plFinal.tgt, plFinal.alignment).err
              # "AssertionError"

\* a run whose aligner linked a "\n" token to a word, and whose final
\* alignment holds a source whitespace with a single target
C25_Witness ==
    /\ plFinal # NoResult
    /\ \E p \in plTokens.alignment.pairs :
          /\ \E i \in 1..Len(plTokens.src) :
                plTokens.src[i].id = p[1] /\ plTokens.src[i].s = <<"\n">>
          /\ \E j \in 1..Len(plTokens.tgt) :
                plTokens.tgt[j].id = p[2] /\ plTokens.tgt[j].k = "TEXT"
    /\ \E i \in 1..Len(plFinal.src) :
          /\ plFinal.src[i].k = "WS"
          /\ Cardinality(AlGet(plFinal.alignment, plFinal.src[i].id)) = 1

(***************************************************************************)
(* Specification SpecSentences: from_sentences on a list of at most        *)
(* MaxSents sentences of at most MaxSnLen characters, then split_sentences *)
(* iterated over the result, twice.                                        *)
(***************************************************************************)
MaxSnLen == 2

SnSentenceLists == UNION {[1..n -> StringsUpTo(MaxSnLen)] : n \in 0..MaxSents}

InitSentences ==
    /\ snSents \in SnSentenceLists
    /\ snText = NoCall
    /\ snSplit = <<>>
    /\ LexIdle
    /\ AlIdle
    /\ CmpIdle
    /\ AsIdle
    /\ RtIdle
    /\ RsIdle
    /\ IvIdle
    /\ TlIdle
    /\ AgIdle
    /\ TvIdle
    /\ PlIdle
    /\ BrIdle

CallFromSentences ==
    /\ snText = NoCall
    /\ snText' = [ok   |-> FromSentences(snSents, "S").err = "",
                  err  |-> FromSentences(snSents, "S").err,
                  segs |-> FromSentences(snSents, "S").segs]
    /\ UNCHANGED <<snSents, snSplit, lexVars, alVars, cmpVars, asVars, rtVars, rsVars, ivVars,
                   tlVars, agVars, tvVars, plVars, brVars>>

\* list(text.split_sentences()): one iteration over the generator
IterateSplitSentences ==
    /\ snText.ok
    /\ Len(snSplit) < 2
    /\ snSplit' = Append(snSplit, SplitSentences(snText.segs))
    /\ UNCHANGED <<snSents, snText, lexVars, alVars, cmpVars, asVars, rtVars, rsVars, ivVars,
                   tlVars, agVars, tvVars, plVars, brVars>>

NextSentences ==
    \/ CallFromSentences
    \/ IterateSplitSentences

SpecSentences == InitSentences /\ [][NextSentences]_vars

\* C26: for every list of sentence strings L that from_sentences accepts,
\* from_sentences(L) holds exactly one sentence separator between
\* consecutive sentences and none after the last, and split_sentences on it
\* yields exactly len(L) sub-sequences, none holding a separator, the i-th
\* with the string L[i]; a second iteration yields the same sub-sequences.
C26_SentencesRoundTrip ==
    snText.ok =>
        /\ Cardinality({i \in 1..Len(snText.segs) : snText.segs[i].k = "SEP"})
              = Max({Len(snSents) - 1, 0})
        /\ \A n \in 1..Len(snSplit) :
              /\ Len(snSplit[n]) = Len(snSents)
              /\ \A i \in 1..Len(snSplit[n]) :
                    /\ \A j \in 1..Len(snSplit[n][i]) : snSplit[n][i][j].k # "SEP"
                    /\ i <= Len(snSents) => Str(snSplit[n][i]) = snSents[i]
              /\ snSplit[n] = snSplit[1]

(***************************************************************************)
(* Specification SpecConcat: A + B on two AlignedSegments objects, and     *)
(* with it Alignment.__add__ on their alignments.  A is a text of at most  *)
(* MaxCatLen segments on either side; B is over segments of its own, or    *)
(* over the first source segment and the first target segment of A as      *)
(* well (two alignments of the same text).                                 *)
(***************************************************************************)
MaxCatLen == 2

CatText(origin, n) == [i \in 1..n |-> Obj(<<origin, i>>, TextSegment(<<"x">>))]

CatAlignments(src, tgt) ==
    {AddAll(EmptyAlignment, {<<p[1], p[1], p[2]>> : p \in pairs}) :
        pairs \in SUBSET (Ids(src) \X Ids(tgt))}

InitConcat ==
    /\ \E n \in 1..MaxCatLen, k \in 1..MaxCatLen :
       \E srcB \in {<<>>, CatText("U", 1), CatText("S", 1), CatText("S", 1) \o CatText("U", 1)},
          tgtB \in {<<>>, CatText("V", 1), CatText("T", 1)} :
       \E alA \in CatAlignments(CatText("S", n), CatText("T", k)),
          alB \in CatAlignments(srcB, tgtB) :
          /\ asA = AlignedSegments(CatText("S", n), CatText("T", k), alA)
          /\ asB = AlignedSegments(srcB, tgtB, alB)
    /\ asRes = NoResult
    /\ asErr = "none"
    /\ LexIdle
    /\ AlIdle
    /\ CmpIdle
    /\ RtIdle
    /\ RsIdle
    /\ IvIdle
    /\ TlIdle
    /\ AgIdle
    /\ TvIdle
    /\ PlIdle
    /\ SnIdle
    /\ BrIdle

\* C = A + B; asA is A as the call leaves it
ConcatAligned ==
    /\ asErr = "none"
    /\ asErr' = ""
    /\ asRes' = AsConcat(asA, asB).res
    /\ asA' = AsConcat(asA, asB).self
    /\ UNCHANGED <<asB, lexVars, alVars, cmpVars, rtVars, rsVars, ivVars, tlVars, agVars,
                   tvVars, plVars, snVars, brVars>>

NextConcat == ConcatAligned

SpecConcat == InitConcat /\ [][NextConcat]_vars

\* C27: Alignment union and AlignedSegments concatenation leave their
\* operands unchanged: after C = A + B, A holds exactly the pairs it held
\* before and answers get, is_src_aligned and is_tgt_aligned as before, and
\* so does B; C holds exactly the pairs of A and of B, over the concatenated
\* sources and targets, C's is_tgt_aligned agrees with its pairs, and
\* A + empty holds exactly the pairs of A.
C27_UnionLeavesOperands ==
    [][(asErr = "none" /\ asErr' # "none") =>
          LET all == Ids(asA.src) \cup Ids(asA.tgt) \cup Ids(asB.src) \cup Ids(asB.tgt)
          IN  /\ asA'.alignment.pairs = asA.alignment.pairs
              /\ \A x \in all :
                    /\ AlGet(asA'.alignment, x) = AlGet(asA.alignment, x)
                    /\ IsSrcAligned(asA'.alignment, x) = IsSrcAligned(asA.alignment, x)
                    /\ IsTgtAligned(asA'.alignment, x) = IsTgtAligned(asA.alignment, x)
              /\ asB' = asB
              /\ asRes'.src = asA.src \o asB.src
              /\ asRes'.tgt = asA.tgt \o asB.tgt
              /\ asRes'.alignment.pairs = asA.alignment.pairs \cup asB.alignment.pairs
              /\ \A x \in all :
                    IsTgtAligned(asRes'.alignment, x)
                       = (\E p \in asRes'.alignment.pairs : p[2] = x)
              /\ asB.alignment.pairs = {} =>
                    asRes'.alignment.pairs = asA.alignment.pairs
    ]_vars

(***************************************************************************)
(* Specification SpecBatch: at most MaxBrOps operations on one             *)
(* BatchRequest object of either class: __call__ on a line, flush,         *)
(* batch_process on at most MaxBrLines lines.  Lines have sizes            *)
(* 1..MaxLineSize, batch_max_bytes is 1..MaxBatchBytes, and in each        *)
(* operation at most one invocation of the callback raises.                *)
(***************************************************************************)
MaxBrOps == 3
MaxBrLines == 2
MaxLineSize == 3
MaxBatchBytes == 2

InitBatch ==
    /\ brImpl \in {"clean", "noclean"}
    /\ brMax \in 1..MaxBatchBytes
    /\ brBatch = <<>>
    /\ brBytes = 0
    /\ brResults = <<>>
    /\ brSent = <<>>
    /\ brOp = NoOp
    /\ brCalls = 0
    /\ LexIdle
    /\ AlIdle
    /\ CmpIdle
    /\ AsIdle
    /\ RtIdle
    /\ RsIdle
    /\ IvIdle
    /\ TlIdle
    /\ AgIdle
    /\ TvIdle
    /\ PlIdle
    /\ SnIdle

BrRest ==
    <<lexVars, alVars, cmpVars, asVars, rtVars, rsVars, ivVars, tlVars, agVars, tvVars, plVars,
      snVars>>

\* the object as the operators take it, and the variables set from what
\* they return
BrObject ==
    [batch |-> brBatch, bytes |-> brBytes, results |-> brResults, sent |-> brSent,
     invoked |-> 0, err |-> ""]

BrAssign(st, op, lines, ret) ==
    /\ brBatch' = st.batch
    /\ brBytes' = st.bytes
    /\ brResults' = st.results
    /\ brSent' = st.sent
    /\ brOp' = [op |-> op, lines |-> lines, err |-> st.err, ret |-> ret, from |-> Len(brSent)]
    /\ brCalls' = brCalls + 1
    /\ UNCHANGED <<brImpl, brMax, BrRest>>

\* the lists of n lines an operation may be handed: lines no operation was
\* handed before
BrLines(n) ==
    {[i \in 1..n |-> [id |-> <<brCalls + 1, i>>, size |-> sizes[i]]] :
        sizes \in [1..n -> 1..MaxLineSize]}

BrCall ==
    /\ brCalls < MaxBrOps
    /\ \E lines \in BrLines(1), failAt \in 0..1 :
          BrAssign(CallLine(BrObject, lines[1], brMax, failAt), "__call__", lines, <<>>)

BrFlush ==
    /\ brCalls < MaxBrOps
    /\ \E failAt \in 0..1 :
          BrAssign(Flush(BrObject, failAt), "flush", <<>>, <<>>)

BrBatchProcess ==
    /\ brCalls < MaxBrOps
    /\ \E n \in 0..MaxBrLines :
       \E lines \in BrLines(n), failAt \in 0..(MaxBrLines + 1) :
       \E r \in {BatchProcess(brImpl, BrObject, lines, brMax, failAt)} :
          BrAssign(r.st, "batch_process", lines, r.ret)

NextBatch ==
    \/ BrCall
    \/ BrFlush
    \/ BrBatchProcess

SpecBatch == InitBatch /\ [][NextBatch]_vars

\* C29: for every sequence of lines fed to a BatchRequest through __call__,
\* flush or batch_process, the callback is never invoked with an empty
\* batch, and every batch it is invoked with has a total computed size of at
\* most batch_max_bytes unless it holds a single line - also when one line
\* alone is larger than batch_max_bytes.
C29_BatchesNonEmptyAndBounded ==
    \A n \in 1..Len(brSent) :
       /\ brSent[n] # <<>>
       /\ Len(brSent[n]) = 1 \/ TotalSize(brSent[n]) <= brMax

(***************************************************************************)
(* Specification SpecBatchProcess: batch_process calls alone on one        *)
(* BatchRequest object of either class.                                    *)
(***************************************************************************)
NextBatchProcess == BrBatchProcess

SpecBatchProcess == InitBatch /\ [][NextBatchProcess]_vars

\* C30: for every sequence of batch_process calls on one BatchRequest
\* object, calls in which the callback raised included, each call that
\* returns has passed every one of its lines to the callback exactly once,
\* in input order and in consecutive batches, and returns the results of the
\* callback for exactly that call's lines, in order: no line or result of an
\* earlier call is sent again or included, and the pending batch is empty
\* when it returns.
C30_BatchProcessOwnLinesOnly ==
    (brOp.op = "batch_process" /\ brOp.err = "") =>
        /\ Join(SubSeq(brSent, brOp.from + 1, Len(brSent))) = brOp.lines
        /\ brOp.ret = Callback(brOp.lines)
        /\ brBatch = <<>>

====
